---- MODULE Spec2Model ----
(***************************************************************************)
(* Model of the screenshotter widget's capture engine                      *)
(* (ScreenshotterWidget: executeCapture, runSingleCapture, postCapture,    *)
(* the unmount effect), of the crop stage (getViewportCrop,               *)
(* cropElementFromViewportCanvas), of the element target resolver          *)
(* (resolveElementCaptureTarget), of clampQualityToScale and of one call   *)
(* of the primary renderer (renderWithHtml2Canvas).                        *)
(*                                                                         *)
(* Text (error messages, data URLs, paths) is modelled as sequences of     *)
(* one-character strings so that toLowerCase / includes / split are        *)
(* computed as the code computes them.                                     *)
(***************************************************************************)
EXTENDS Integers, Sequences, FiniteSets, TLC

VARIABLES
  props,           \* themeAdapter present; the theme the DOM inference yields
  mounted,         \* isMountedRef.current
  inFlight,        \* isCaptureInFlightRef.current
  isSaving,        \* React state isSaving
  status,          \* React state status: [kind, message]
  hideUi,          \* React state hideUiForCapture
  mode,            \* React state mode
  themeSelection,  \* React state themeSelection
  adapterTheme,    \* the theme held by the host's theme adapter
  pending,         \* pendingRequestControllersRef.current (by activation)
  req,             \* one record per activation of executeCapture
  dropped,         \* a call of executeCapture returned at the guard during this request
  crop,            \* crop stage: inputs and the rectangle computed from them
  fnCall           \* a call of a pure function: its inputs and its result

vars == <<props, mounted, inFlight, isSaving, status, hideUi, mode, themeSelection,
          adapterTheme, pending, req, dropped, crop, fnCall>>

(***************************************************************************)
(* Bounds                                                                  *)
(***************************************************************************)
NumSlots == 2      \* activations of executeCapture that may coexist

Slots == 1..NumSlots

\* The captureSettleMs prop at its default.  With 0 the settle wait is skipped,
\* which only removes one point where other handlers can run.
CaptureSettleMs == 700

(***************************************************************************)
(* Text                                                                    *)
(***************************************************************************)
UpperChars ==
  <<"A","B","C","D","E","F","G","H","I","J","K","L","M","N","O","P","Q","R","S","T","U","V","W","X","Y","Z">>
LowerChars ==
  <<"a","b","c","d","e","f","g","h","i","j","k","l","m","n","o","p","q","r","s","t","u","v","w","x","y","z">>

ToLowerChar(c) ==
  IF \E i \in 1..Len(UpperChars) : UpperChars[i] = c
    THEN LowerChars[CHOOSE i \in 1..Len(UpperChars) : UpperChars[i] = c]
    ELSE c

ToLowerCase(str) == [i \in 1..Len(str) |-> ToLowerChar(str[i])]

Includes(str, needle) ==
  \E i \in 0..(Len(str) - Len(needle)) : SubSeq(str, i + 1, i + Len(needle)) = needle

IndexOf(str, c) ==
  IF \E i \in 1..Len(str) : str[i] = c
    THEN CHOOSE i \in 1..Len(str) : str[i] = c /\ \A j \in 1..(i - 1) : str[j] # c
    ELSE 0

\* str.split(",")[1]: the text between the first and the second comma
SplitCommaSecond(str) ==
  LET first == IndexOf(str, ",")
      rest == SubSeq(str, first + 1, Len(str))
      second == IndexOf(rest, ",")
  IN IF second = 0 THEN rest ELSE SubSeq(rest, 1, second - 1)

\* 'Pick an element first.'
MsgPickElementFirst ==
  <<"P","i","c","k"," ","a","n"," ","e","l","e","m","e","n","t"," ","f","i","r","s","t",".">>
\* 'Theme adapter required for both-theme capture.'
MsgAdapterRequired ==
  <<"T","h","e","m","e"," ","a","d","a","p","t","e","r"," ","r","e","q","u","i","r","e","d"," ","f","o","r"," ","b","o","t","h","-","t","h","e","m","e"," ","c","a","p","t","u","r","e",".">>
\* 'Capturing...'
MsgCapturing ==
  <<"C","a","p","t","u","r","i","n","g",".",".",".">>
\* 'Ready'
MsgReady ==
  <<"R","e","a","d","y">>
\* 'Capture failed because unsupported color functions could not be normalized.'
MsgColorFunctions ==
  <<"C","a","p","t","u","r","e"," ","f","a","i","l","e","d"," ","b","e","c","a","u","s","e"," ","u","n","s","u","p","p","o","r","t","e","d"," ","c","o","l","o","r"," ","f","u","n","c","t","i","o","n","s"," ","c","o","u","l","d"," ","n","o","t"," ","b","e"," ","n","o","r","m","a","l","i","z","e","d",".">>
\* 'Could not create 2D context for viewport crop.'
MsgNo2dContext ==
  <<"C","o","u","l","d"," ","n","o","t"," ","c","r","e","a","t","e"," ","2","D"," ","c","o","n","t","e","x","t"," ","f","o","r"," ","v","i","e","w","p","o","r","t"," ","c","r","o","p",".">>
\* 'Canvas encoder returned an empty image.'
MsgEncoderEmpty ==
  <<"C","a","n","v","a","s"," ","e","n","c","o","d","e","r"," ","r","e","t","u","r","n","e","d"," ","a","n"," ","e","m","p","t","y"," ","i","m","a","g","e",".">>
\* 'Failed to encode image.'
MsgEncodeFailed ==
  <<"F","a","i","l","e","d"," ","t","o"," ","e","n","c","o","d","e"," ","i","m","a","g","e",".">>
\* 'Saved '
MsgSavedPrefix == <<"S","a","v","e","d"," ">>
\* ' files. Last: '
MsgFilesLast == <<" ","f","i","l","e","s","."," ","L","a","s","t",":"," ">>
\* 'Capture failed with status '
MsgStatusPrefix ==
  <<"C","a","p","t","u","r","e"," ","f","a","i","l","e","d"," ","w","i","t","h"," ","s","t","a","t","u","s"," ">>

\* Needles of the classifiers
TxtAbort == <<"a","b","o","r","t">>
TxtUnsupportedColorFunction ==
  <<"u","n","s","u","p","p","o","r","t","e","d"," ","c","o","l","o","r"," ","f","u","n","c","t","i","o","n">>
TxtOklch == <<"o","k","l","c","h">>
TxtOklab == <<"o","k","l","a","b">>

\* Texts the environment (renderers, encoder, sink, adapter) produces
\* 'Render failed'
EnvRenderFailed == <<"R","e","n","d","e","r"," ","f","a","i","l","e","d">>
\* 'Attempting to parse an unsupported color function "oklch"'
EnvColorError ==
  <<"A","t","t","e","m","p","t","i","n","g"," ","t","o"," ","p","a","r","s","e"," ","a","n"," ","u","n","s","u","p","p","o","r","t","e","d"," ","c","o","l","o","r"," ","f","u","n","c","t","i","o","n"," ","\"","o","k","l","c","h","\"">>
\* 'Disk full'
EnvDiskFull == <<"D","i","s","k"," ","f","u","l","l">>
\* 'Upload aborted'
EnvUploadAborted == <<"U","p","l","o","a","d"," ","a","b","o","r","t","e","d">>
\* 'Failed to fetch'
EnvFailedToFetch == <<"F","a","i","l","e","d"," ","t","o"," ","f","e","t","c","h">>
\* 'The user aborted a request.'
EnvUserAborted ==
  <<"T","h","e"," ","u","s","e","r"," ","a","b","o","r","t","e","d"," ","a"," ","r","e","q","u","e","s","t",".">>
\* 'setTheme failed'
EnvSetThemeFailed == <<"s","e","t","T","h","e","m","e"," ","f","a","i","l","e","d">>
\* 'image.decode is not a function'
EnvDecodeMissing ==
  <<"i","m","a","g","e",".","d","e","c","o","d","e"," ","i","s"," ","n","o","t"," ","a"," ","f","u","n","c","t","i","o","n">>
\* 'a.png'
EnvPathA == <<"a",".","p","n","g">>
\* '500'
EnvStatus500 == <<"5","0","0">>
\* '200'
EnvStatus200 == <<"2","0","0">>
\* 'data:image/png;base64,QQ=='
EnvDataUrl ==
  <<"d","a","t","a",":","i","m","a","g","e","/","p","n","g",";","b","a","s","e","6","4",",","Q","Q","=","=">>
\* 'data:image/png;base64,'
EnvDataUrlNoBody ==
  <<"d","a","t","a",":","i","m","a","g","e","/","p","n","g",";","b","a","s","e","6","4",",">>

Err(name, message) == [name |-> name, message |-> message]

ToFriendlyError(error) ==
  IF error.message # <<>> THEN error.message ELSE error.name

HasUnsupportedColorFunction(value) ==
  LET normalized == ToLowerCase(value)
  IN Includes(normalized, TxtOklch) \/ Includes(normalized, TxtOklab)

IsUnsupportedColorFunctionError(error) ==
  LET message == ToLowerCase(ToFriendlyError(error))
  IN Includes(message, TxtUnsupportedColorFunction) /\ HasUnsupportedColorFunction(message)

IsAbortError(error) ==
  \/ error.name = "AbortError"
  \/ Includes(ToLowerCase(ToFriendlyError(error)), TxtAbort)

\* mutant: the opposite theme is the theme itself
SameTheme(theme) == theme

OppositeTheme(theme) == IF theme = "light" THEN "dark" ELSE "light"


\* 'No element selected for element capture.'
MsgNoElementSelected ==
  <<"N","o"," ","e","l","e","m","e","n","t"," ","s","e","l","e","c","t","e","d"," ","f","o","r"," ","e","l","e","m","e","n","t"," ","c","a","p","t","u","r","e",".">>

Digits == <<"0","1","2","3","4","5","6","7","8","9">>
\* String(n) for a one-digit count
NumberToString(n) == <<Digits[n + 1]>>

(***************************************************************************)
(* The widget state as one record, so that the synchronous code between    *)
(* two awaits composes into one step.                                      *)
(***************************************************************************)
Bundle ==
  [mounted |-> mounted, inFlight |-> inFlight, isSaving |-> isSaving,
   status |-> status, hideUi |-> hideUi, adapterTheme |-> adapterTheme,
   pending |-> pending, req |-> req, dropped |-> dropped]

Install(g) ==
  /\ mounted' = g.mounted
  /\ inFlight' = g.inFlight
  /\ isSaving' = g.isSaving
  /\ status' = g.status
  /\ hideUi' = g.hideUi
  /\ adapterTheme' = g.adapterTheme
  /\ pending' = g.pending
  /\ req' = g.req
  /\ dropped' = g.dropped
  /\ UNCHANGED <<props, mode, themeSelection, crop, fnCall>>

\* An activation of executeCapture that is not running.  The log fields
\* (setThemeCalls, rasters, sinkCalls, onSaved, onError: the calls the
\* activation made; cropFailed: cropCanvas threw for want of a 2D context;
\* thrown, outcome: how it ended) keep what the activation's last request did
\* until the activation is reused.
IdleReq ==
  [pc |-> "idle", mode |-> "viewport", themeSelection |-> "current", sel |-> FALSE,
   originalTheme |-> "light", themes |-> <<>>, idx |-> 0, results |-> <<>>,
   stage |-> "none", attempt |-> 0, primaryError |-> Err("none", <<>>),
   fallbackError |-> Err("none", <<>>), cropFailed |-> FALSE,
   responseOk |-> FALSE, responseStatus |-> <<>>, signal |-> "none",
   setThemeCalls |-> <<>>, rasters |-> <<>>, rasterIters |-> {},
   sinkCalls |-> <<>>, onSaved |-> <<>>, onError |-> <<>>,
   thrown |-> Err("none", <<>>), outcome |-> "none"]

\* runIfMounted(work): `worked` is g with the work applied
RunIfMounted(g, worked) == IF g.mounted THEN worked ELSE g

(***************************************************************************)
(* executeCapture: the code after the theme loop                           *)
(***************************************************************************)
FinishKeepsGuard(g, s) ==
  LET g2 == RunIfMounted(g, [g EXCEPT !.isSaving = FALSE])
  IN [g2 EXCEPT !.req[s].pc = "idle", !.dropped = FALSE]

\* the end of the finally block, after the restoring setTheme has settled
Finish(g, s) ==
  LET g1 == [g EXCEPT !.inFlight = FALSE]
      g2 == RunIfMounted(g1, [g1 EXCEPT !.isSaving = FALSE])
  IN [g2 EXCEPT !.req[s].pc = "idle", !.dropped = FALSE]

\* mutant: the finally block does not restore the theme
FinallyNoRestore(g, s) == Finish(g, s)

\* the finally block up to its await
Finally(g, s) ==
  IF props.hasAdapter
    THEN [g EXCEPT !.req[s].pc = "restore",
                   !.req[s].setThemeCalls = Append(@, g.req[s].originalTheme)]
    ELSE Finish(g, s)

\* the catch block, then the finally block
Catch(g, s, error) ==
  LET g0 == [g EXCEPT !.req[s].thrown = error]
  IN IF IsAbortError(error)
       THEN Finally([g0 EXCEPT !.req[s].outcome = "cancelled"], s)
       ELSE LET message == ToFriendlyError(error)
                g1 == RunIfMounted(g0,
                        [g0 EXCEPT !.status = [kind |-> "error", message |-> message]])
                g2 == [g1 EXCEPT !.req[s].onError = Append(@, message),
                                 !.req[s].outcome = "error"]
            IN Finally(g2, s)

\* after the loop: the success status, then the finally block
LoopDone(g, s) ==
  LET results == g.req[s].results
      last == results[Len(results)]
      message == IF Len(results) = 1
                   THEN MsgSavedPrefix \o last
                   ELSE MsgSavedPrefix \o NumberToString(Len(results))
                          \o MsgFilesLast \o last
      g1 == RunIfMounted(g, [g EXCEPT !.status = [kind |-> "success", message |-> message]])
  IN Finally([g1 EXCEPT !.req[s].outcome = "success"], s)

(***************************************************************************)
(* runSingleCapture                                                        *)
(***************************************************************************)
\* runSingleCapture up to its first await (waitForPaint)
RunSingleCaptureStart(g, s) ==
  LET g1 == RunIfMounted(g, [g EXCEPT !.hideUi = TRUE])
  IN [g1 EXCEPT !.req[s].pc = "paint"]

\* the finally block of runSingleCapture; the locals of the renderers and of
\* postCapture go out of scope
RunSingleFinally(g, s) ==
  LET g1 == RunIfMounted(g, [g EXCEPT !.hideUi = FALSE])
  IN [g1 EXCEPT !.req[s].stage = "none",
                !.req[s].attempt = 0,
                !.req[s].primaryError = Err("none", <<>>),
                !.req[s].fallbackError = Err("none", <<>>),
                !.req[s].responseOk = FALSE,
                !.req[s].responseStatus = <<>>,
                !.req[s].rasters = <<>>]

\* an error raised inside the try block of runSingleCapture
ThrowInCapture(g, s, error) == Catch(RunSingleFinally(g, s), s, error)

\* the render mode a stage of runSingleCapture passes to the renderer
RenderMode(r) ==
  CASE r.stage \in {"elemViewport", "elemFallback"} -> "viewport"
    [] r.stage = "elemDirect" -> "element"
    [] OTHER -> r.mode

\* mutant: every attempt embeds foreign objects
ForeignObjectAlways(renderMode, attempt) == TRUE

\* renderWithHtml2Canvas: foreignObjectRendering of the n-th attempt
ForeignObjectOf(renderMode, attempt) ==
  IF attempt = 1 THEN renderMode # "element" ELSE renderMode = "element"

\* a call of html2canvas(target, options); the first attempt is made by a new
\* call of renderWithHtml2Canvas, which has caught nothing yet
Html2CanvasCall(g, s, stage, attempt) ==
  LET r0 == [g.req[s] EXCEPT !.stage = stage, !.attempt = attempt]
      r == IF attempt = 1
             THEN [r0 EXCEPT !.primaryError = Err("none", <<>>),
                             !.fallbackError = Err("none", <<>>)]
             ELSE r0
      call == [lib |-> "html2canvas", stage |-> stage, attempt |-> attempt,
               target |-> IF stage = "elemDirect" THEN "element" ELSE "document",
               foreignObject |-> ForeignObjectOf(RenderMode(r), attempt)]
  IN [g EXCEPT !.req[s] = [r EXCEPT !.pc = "html2canvas",
                                     !.rasters = Append(@, call),
                                     !.rasterIters = @ \cup {r.idx}]]

\* renderWithHtmlToImageFallback up to its await: a call of toCanvas
ToCanvasCall(g, s, stage) ==
  LET r == [g.req[s] EXCEPT !.stage = stage, !.attempt = 1]
      call == [lib |-> "toCanvas", stage |-> stage, attempt |-> 1,
               target |-> "document", foreignObject |-> FALSE]
  IN [g EXCEPT !.req[s] = [r EXCEPT !.pc = "toCanvas",
                                     !.rasters = Append(@, call),
                                     !.rasterIters = @ \cup {r.idx}]]

\* what renderWithHtml2Canvas throws when both attempts have thrown
RenderWithHtml2CanvasRaise(primaryError, fallbackError) ==
  IF \/ IsUnsupportedColorFunctionError(primaryError)
     \/ IsUnsupportedColorFunctionError(fallbackError)
    THEN Err("Error", MsgColorFunctions)
    ELSE fallbackError

\* mutant: a failure of the primary renderer ends the iteration
PrimaryFailureIsFinal(g, s, raised) == ThrowInCapture(g, s, raised)

\* runSingleCapture when renderWithHtml2Canvas has thrown `raised`: the catch
\* blocks around the viewport render of element mode and around the render of
\* the other modes call the fallback renderer
AfterPrimaryFailed(g, s, raised) ==
  CASE g.req[s].stage = "elemViewport" -> ToCanvasCall(g, s, "elemFallback")
    [] g.req[s].stage = "main" -> ToCanvasCall(g, s, "mainFallback")
    [] OTHER -> ThrowInCapture(g, s, raised)

\* mutant: element mode rasterizes the selected element at once
StartRenderDirect(g, s) ==
  LET r == g.req[s]
  IN IF r.mode = "element" /\ r.sel
       THEN Html2CanvasCall(g, s, "elemDirect", 1)
       ELSE Html2CanvasCall(g, s, "main", 1)

\* the try block of runSingleCapture up to the first renderer call
StartRender(g, s) ==
  LET r == g.req[s]
  IN IF r.mode = "element" /\ ~r.sel
       THEN ThrowInCapture(g, s, Err("Error", MsgNoElementSelected))
       ELSE IF r.mode = "element" /\ r.sel
              THEN Html2CanvasCall(g, s, "elemViewport", 1)
              ELSE Html2CanvasCall(g, s, "main", 1)

\* mutant: every payload carries the original theme
PostCaptureOriginalTheme(g, s, imageBase64) ==
  LET r == g.req[s]
      payload == [theme |-> r.originalTheme, mode |-> r.mode,
                  imageBase64 |-> imageBase64]
  IN [g EXCEPT !.pending = @ \cup {s},
               !.req[s].pc = "fetch",
               !.req[s].signal = "live",
               !.req[s].sinkCalls = Append(@, payload)]

\* postCapture up to its await of fetch
PostCapture(g, s, imageBase64) ==
  LET r == g.req[s]
      payload == [theme |-> r.themes[r.idx], mode |-> r.mode,
                  imageBase64 |-> imageBase64]
  IN [g EXCEPT !.pending = @ \cup {s},
               !.req[s].pc = "fetch",
               !.req[s].signal = "live",
               !.req[s].sinkCalls = Append(@, payload)]

\* mutant: the encoder's output is sent unchecked
EncodeUnchecked(g, s, encoded) ==
  PostCapture(g, s, IF Includes(encoded, <<",">>) THEN SplitCommaSecond(encoded)
                                                 ELSE encoded)

\* from the rendered canvas to the sink call: toDataURL, base64 part, payload
Encode(g, s, encoded) ==
  IF encoded = <<>>
    THEN ThrowInCapture(g, s, Err("Error", MsgEncoderEmpty))
    ELSE LET imageBase64 == IF Includes(encoded, <<",">>)
                              THEN SplitCommaSecond(encoded)
                              ELSE encoded
         IN IF imageBase64 = <<>>
              THEN ThrowInCapture(g, s, Err("Error", MsgEncodeFailed))
              ELSE PostCapture(g, s, imageBase64)

(***************************************************************************)
(* executeCapture: the theme loop                                          *)
(***************************************************************************)
\* after the theme has been set: the configurable settle wait, or the capture
AfterThemeSet(g, s) ==
  IF CaptureSettleMs > 0
    THEN [g EXCEPT !.req[s].pc = "settle"]
    ELSE RunSingleCaptureStart(g, s)

\* the head of the loop body for the theme at position idx
IterationStart(g, s) ==
  LET r == g.req[s]
  IN IF r.idx > Len(r.themes)
       THEN LoopDone(g, s)
       ELSE IF props.hasAdapter
              THEN [g EXCEPT !.req[s].pc = "setTheme",
                             !.req[s].setThemeCalls = Append(@, r.themes[r.idx])]
              ELSE AfterThemeSet(g, s)


(***************************************************************************)
(* Inputs drawn from the environment                                       *)
(***************************************************************************)
Modes == {"element", "viewport", "fullpage"}
Themes == {"light", "dark"}
ThemeSelections == {"current", "both"}
RenderOutcomes == {"ok", "plain", "color"}
EncoderOutputs == {<<>>, EnvDataUrl, EnvDataUrlNoBody}
FetchOutcomes == {"ok200", "err500", "network"}
Bodies ==
  {[isNull |-> TRUE, ok |-> FALSE, error |-> <<>>, relativePath |-> <<>>],
   [isNull |-> FALSE, ok |-> TRUE, error |-> <<>>, relativePath |-> EnvPathA]}
  \cup {[isNull |-> FALSE, ok |-> FALSE, error |-> e, relativePath |-> <<>>] :
          e \in {<<>>, EnvDiskFull, EnvUploadAborted}}

RenderError(outcome) ==
  IF outcome = "color" THEN Err("Error", EnvColorError) ELSE Err("Error", EnvRenderFailed)

(***************************************************************************)
(* Init                                                                    *)
(***************************************************************************)
NoCrop == [fn |-> "none"]
NoCall == [fn |-> "none"]

Init ==
  \* with an adapter the DOM inference is only the fallback of a throwing
  \* getCurrentTheme: one DOM theme, against both adapter themes, covers it
  /\ props \in {p \in [hasAdapter : BOOLEAN, domTheme : Themes] :
                  p.hasAdapter => p.domTheme = "light"}
  /\ mounted = TRUE
  /\ inFlight = FALSE
  /\ isSaving = FALSE
  /\ status = [kind |-> "idle", message |-> MsgReady]
  /\ hideUi = FALSE
  /\ mode \in Modes
  /\ themeSelection \in ThemeSelections
  /\ adapterTheme \in (IF props.hasAdapter THEN Themes ELSE {props.domTheme})
  /\ pending = {}
  /\ req = [s \in Slots |-> IdleReq]
  /\ dropped = FALSE
  /\ crop = NoCrop
  /\ fnCall = NoCall

(***************************************************************************)
(* Actions                                                                 *)
(***************************************************************************)
\* getCurrentTheme: the adapter's theme, or the DOM inference when there is no
\* adapter or its getCurrentTheme throws
GetCurrentTheme(adapterThrows) ==
  IF props.hasAdapter /\ ~adapterThrows THEN adapterTheme ELSE props.domTheme

\* the activation a new call of executeCapture runs in
FreeSlot(s) == req[s].pc = "idle" /\ \A t \in Slots : t < s => req[t].pc # "idle"

\* mutant: no single-flight guard
GuardNever == FALSE

\* the single-flight guard at the entry of executeCapture
GuardBlocks == inFlight

\* mutant: the guard is taken before the preconditions are checked
RejectKeepsGuard(g, message) ==
  RunIfMounted([g EXCEPT !.inFlight = TRUE],
               [g EXCEPT !.inFlight = TRUE,
                         !.status = [kind |-> "error", message |-> message]])

\* a precondition of executeCapture is violated: the error status, and return
Reject(g, message) ==
  RunIfMounted(g, [g EXCEPT !.status = [kind |-> "error", message |-> message]])

\* executeCapture(selectedElement), up to its first await.  The handlers that
\* call it (the action button, the picker's click listener) exist while the
\* widget is mounted.
ExecuteCapture(s, sel, adapterThrows) ==
  /\ mounted
  /\ FreeSlot(s)
  /\ IF GuardBlocks
       THEN Install([Bundle EXCEPT !.dropped = TRUE])
       ELSE IF mode = "element" /\ ~sel
         THEN Install(Reject(Bundle, MsgPickElementFirst))
         ELSE IF themeSelection = "both" /\ ~props.hasAdapter
           THEN Install(Reject(Bundle, MsgAdapterRequired))
           ELSE LET g1 == [Bundle EXCEPT !.inFlight = TRUE]
                    g2 == RunIfMounted(g1,
                            [g1 EXCEPT !.isSaving = TRUE,
                                       !.status = [kind |-> "saving", message |-> MsgCapturing]])
                    originalTheme == GetCurrentTheme(adapterThrows)
                    captureThemes == IF themeSelection = "both"
                                       THEN <<originalTheme, OppositeTheme(originalTheme)>>
                                       ELSE <<originalTheme>>
                    r == [IdleReq EXCEPT !.mode = mode,
                                            !.themeSelection = themeSelection,
                                            !.sel = sel,
                                            !.originalTheme = originalTheme,
                                            !.themes = captureThemes,
                                            !.idx = 1,
                                            !.outcome = "running"]
                IN Install(IterationStart([g2 EXCEPT !.req[s] = r], s))

\* await themeAdapter.setTheme(theme) settles; then waitForMs(120)
SetThemeSettled(s, ok) ==
  /\ req[s].pc = "setTheme"
  /\ IF ok
       THEN Install([Bundle EXCEPT !.adapterTheme = req[s].themes[req[s].idx],
                                   !.req[s].pc = "settle120"])
       ELSE Install(Catch(Bundle, s, Err("Error", EnvSetThemeFailed)))

\* await waitForMs(120) settles
ThemeDelayElapsed(s) ==
  /\ req[s].pc = "settle120"
  /\ Install(AfterThemeSet(Bundle, s))

\* await waitForMs(captureSettleMs) settles
SettleElapsed(s) ==
  /\ req[s].pc = "settle"
  /\ Install(RunSingleCaptureStart(Bundle, s))

\* await waitForPaint() settles; then waitForVisualAssetsReady() is called,
\* outside the try block of runSingleCapture
PaintDone(s, assetsThrow) ==
  /\ req[s].pc = "paint"
  /\ IF assetsThrow
       THEN Install(Catch(Bundle, s, Err("TypeError", EnvDecodeMissing)))
       ELSE Install([Bundle EXCEPT !.req[s].pc = "assets"])

\* await waitForVisualAssetsReady() settles
AssetsReady(s) ==
  /\ req[s].pc = "assets"
  /\ Install(StartRender(Bundle, s))

\* an attempt of html2canvas settles (inside renderWithHtml2Canvas)
Html2CanvasSettled(s, outcome, ctxOk, encoded) ==
  /\ req[s].pc = "html2canvas"
  /\ LET r == req[s]
         error == RenderError(outcome)
     IN IF outcome = "ok"
          THEN IF r.stage = "elemViewport" /\ ~ctxOk
                 \* cropElementFromViewportCanvas throws inside the inner try
                 THEN Install(ToCanvasCall([Bundle EXCEPT !.req[s].cropFailed = TRUE],
                                           s, "elemFallback"))
                 ELSE Install(Encode(Bundle, s, encoded))
          ELSE IF r.attempt = 1
            THEN Install(Html2CanvasCall([Bundle EXCEPT !.req[s].primaryError = error],
                                         s, r.stage, 2))
            ELSE Install(AfterPrimaryFailed(
                           [Bundle EXCEPT !.req[s].fallbackError = error], s,
                           RenderWithHtml2CanvasRaise(r.primaryError, error)))

\* toCanvas settles (inside renderWithHtmlToImageFallback); then the crops
ToCanvasSettled(s, outcome, ctxOk, encoded) ==
  /\ req[s].pc = "toCanvas"
  /\ outcome \in {"ok", "plain"}
  /\ LET r == req[s]
         cropThrew == [Bundle EXCEPT !.req[s].cropFailed = TRUE]
     IN IF r.stage = "elemFallback"
          THEN IF outcome = "ok" /\ ctxOk
                 THEN Install(Encode(Bundle, s, encoded))
                 ELSE IF outcome = "ok"
                   THEN Install(Html2CanvasCall(cropThrew, s, "elemDirect", 1))
                   ELSE Install(Html2CanvasCall(Bundle, s, "elemDirect", 1))
          ELSE IF outcome # "ok"
            THEN Install(ThrowInCapture(Bundle, s, RenderError(outcome)))
            ELSE IF r.mode = "fullpage" \/ ctxOk
              THEN Install(Encode(Bundle, s, encoded))
              ELSE Install(ThrowInCapture(cropThrew, s, Err("Error", MsgNo2dContext)))

\* await fetch(...) settles; the finally block of postCapture; response.json()
FetchSettled(s, outcome) ==
  /\ req[s].pc = "fetch"
  /\ LET g1 == [Bundle EXCEPT !.pending = @ \ {s}]
     IN IF req[s].signal = "aborted"
          THEN Install(ThrowInCapture(g1, s, Err("AbortError", EnvUserAborted)))
          ELSE IF outcome = "network"
            THEN Install(ThrowInCapture(g1, s, Err("TypeError", EnvFailedToFetch)))
            ELSE Install([g1 EXCEPT !.req[s].pc = "json",
                                    !.req[s].responseOk = (outcome = "ok200"),
                                    !.req[s].responseStatus =
                                       IF outcome = "ok200" THEN EnvStatus200
                                                            ELSE EnvStatus500])

\* await response.json() settles; the rest of postCapture, of runSingleCapture
\* and of the loop body, up to the next await
JsonSettled(s, body) ==
  /\ req[s].pc = "json"
  /\ LET r == req[s]
     IN IF ~r.responseOk \/ body.isNull \/ ~body.ok
          THEN LET message == IF ~body.isNull /\ body.error # <<>>
                                THEN body.error
                                ELSE MsgStatusPrefix \o r.responseStatus \o <<".">>
               IN Install(ThrowInCapture(Bundle, s, Err("Error", message)))
          ELSE LET g1 == RunSingleFinally(Bundle, s)
                   g2 == [g1 EXCEPT !.req[s].results = Append(@, body.relativePath),
                                    !.req[s].onSaved = Append(@, body.relativePath),
                                    !.req[s].idx = @ + 1]
               IN Install(IterationStart(g2, s))

\* the restoring await themeAdapter.setTheme(originalTheme) settles
RestoreSettled(s, ok) ==
  /\ req[s].pc = "restore"
  /\ LET g1 == IF ok THEN [Bundle EXCEPT !.adapterTheme = req[s].originalTheme]
                     ELSE Bundle
     IN Install(Finish(g1, s))

\* mutant: the cleanup forgets the controllers without aborting them
UnmountNoAbort ==
  /\ mounted
  /\ mounted' = FALSE
  /\ inFlight' = FALSE
  /\ pending' = {}
  /\ UNCHANGED <<props, isSaving, status, hideUi, mode, themeSelection, adapterTheme,
                 req, dropped, crop, fnCall>>

\* the cleanup of the mount effect
Unmount ==
  /\ mounted
  /\ mounted' = FALSE
  /\ inFlight' = FALSE
  /\ req' = [s \in Slots |->
               IF s \in pending THEN [req[s] EXCEPT !.signal = "aborted"] ELSE req[s]]
  /\ pending' = {}
  /\ UNCHANGED <<props, isSaving, status, hideUi, mode, themeSelection, adapterTheme,
                 dropped, crop, fnCall>>

\* the mode buttons of the panel
SetMode(m) ==
  /\ mounted
  /\ m # mode
  /\ mode' = m
  /\ UNCHANGED <<props, mounted, inFlight, isSaving, status, hideUi, themeSelection,
                 adapterTheme, pending, req, dropped, crop, fnCall>>

\* the theme buttons of the panel ("both" is disabled without an adapter)
SetThemeSelection(t) ==
  /\ mounted
  /\ t # themeSelection
  /\ t = "both" => props.hasAdapter
  /\ themeSelection' = t
  /\ UNCHANGED <<props, mounted, inFlight, isSaving, status, hideUi, mode,
                 adapterTheme, pending, req, dropped, crop, fnCall>>

\* the effect that resets "both" when there is no adapter
NormalizeThemeSelection ==
  /\ mounted
  /\ ~props.hasAdapter
  /\ themeSelection = "both"
  /\ themeSelection' = "current"
  /\ UNCHANGED <<props, mounted, inFlight, isSaving, status, hideUi, mode,
                 adapterTheme, pending, req, dropped, crop, fnCall>>

Next ==
  \/ \E s \in Slots, sel \in BOOLEAN, adapterThrows \in BOOLEAN :
       ExecuteCapture(s, sel, adapterThrows)
  \/ \E s \in Slots, ok \in BOOLEAN : SetThemeSettled(s, ok)
  \/ \E s \in Slots : ThemeDelayElapsed(s)
  \/ \E s \in Slots : SettleElapsed(s)
  \/ \E s \in Slots, assetsThrow \in BOOLEAN : PaintDone(s, assetsThrow)
  \/ \E s \in Slots : AssetsReady(s)
  \/ \E s \in Slots, outcome \in RenderOutcomes, ctxOk \in BOOLEAN,
        encoded \in EncoderOutputs : Html2CanvasSettled(s, outcome, ctxOk, encoded)
  \/ \E s \in Slots, outcome \in RenderOutcomes, ctxOk \in BOOLEAN,
        encoded \in EncoderOutputs : ToCanvasSettled(s, outcome, ctxOk, encoded)
  \/ \E s \in Slots, outcome \in FetchOutcomes : FetchSettled(s, outcome)
  \/ \E s \in Slots, body \in Bodies : JsonSettled(s, body)
  \/ \E s \in Slots, ok \in BOOLEAN : RestoreSettled(s, ok)
  \/ Unmount
  \/ \E m \in Modes : SetMode(m)
  \/ \E t \in ThemeSelections : SetThemeSelection(t)
  \/ NormalizeThemeSelection

Spec == Init /\ [][Next]_vars


(***************************************************************************)
(* Crop stage.  Lengths are integers in fixed point: scale in hundredths    *)
(* (the values clampQualityToScale yields), CSS positions and sizes in      *)
(* half pixels, canvas sizes in device pixels.                              *)
(***************************************************************************)
MaxDim == 2      \* canvas and window sizes up to MaxDim pixels
MaxHalf == 6     \* positions from -1 px up to MaxHalf half pixels

Max(a, b) == IF a >= b THEN a ELSE b
Min(a, b) == IF a <= b THEN a ELSE b

\* Math.floor, Math.ceil and Math.round of n / d, for d > 0
FloorDiv(n, d) == n \div d
CeilDiv(n, d) == -((-n) \div d)
RoundDiv(n, d) == (2 * n + d) \div (2 * d)

\* mutant: the quality is not clamped to 1..100
ClampQualityUnbounded(quality) == RoundDiv(100 * 99 + 100 * (quality - 1), 99)

\* clampQualityToScale(quality) for an integer quality, in hundredths
ClampQualityToScale(quality) ==
  LET bounded == Min(100, Max(1, quality))
  IN RoundDiv(100 * 99 + 100 * (bounded - 1), 99)

\* getViewportCrop(scale, sourceWidth, sourceHeight), with the window's sizes
\* and scroll offsets it reads
GetViewportCrop(scale, sourceWidth, sourceHeight, innerWidth, innerHeight, scrollX, scrollY) ==
  LET requestedWidth == Max(1, RoundDiv(innerWidth * scale, 100))
      requestedHeight == Max(1, RoundDiv(innerHeight * scale, 100))
      sx == Max(0, RoundDiv(scrollX * scale, 200))
      sy == Max(0, RoundDiv(scrollY * scale, 200))
      sw == Max(1, Min(requestedWidth, sourceWidth - sx))
      sh == Max(1, Min(requestedHeight, sourceHeight - sy))
  IN [sx |-> sx, sy |-> sy, sw |-> sw, sh |-> sh]

\* the rectangle cropElementFromViewportCanvas passes to cropCanvas
CropElementFromViewportCanvas(width, height, rect, scale, paddingPx) ==
  LET safePadding == Max(0, paddingPx)
      sx == Max(0, FloorDiv((rect.left - 2 * safePadding) * scale, 200))
      sy == Max(0, FloorDiv((rect.top - 2 * safePadding) * scale, 200))
      requestedWidth == Max(1, CeilDiv((rect.width + 4 * safePadding) * scale, 200))
      requestedHeight == Max(1, CeilDiv((rect.height + 4 * safePadding) * scale, 200))
      sw == Max(1, Min(requestedWidth, width - sx))
      sh == Max(1, Min(requestedHeight, height - sy))
  IN [sx |-> sx, sy |-> sy, sw |-> sw, sh |-> sh]

Scales == {ClampQualityToScale(q) : q \in {1, 50, 100}}
Dims == 1..MaxDim
Positions == (-2)..MaxHalf
Sizes == 0..(MaxHalf - 2)
NoRect == [left |-> 0, top |-> 0, width |-> 0, height |-> 0]
NoOut == [sx |-> 0, sy |-> 0, sw |-> 0, sh |-> 0]

ViewportCropInputs ==
  [fn : {"viewport"}, done : {FALSE}, scale : Scales, W : Dims, H : Dims,
   innerWidth : 0..MaxDim, innerHeight : 0..MaxDim,
   scrollX : Positions, scrollY : Positions,
   rect : {NoRect}, padding : {0}, out : {NoOut}]

ElementCropInputs ==
  [fn : {"element"}, done : {FALSE}, scale : Scales, W : Dims, H : Dims,
   innerWidth : {0}, innerHeight : {0}, scrollX : {0}, scrollY : {0},
   rect : [left : Positions, top : Positions, width : Sizes, height : Sizes],
   padding : 0..1, out : {NoOut}]

\* the widget idle, as after construction
WidgetIdle ==
  /\ props = [hasAdapter |-> FALSE, domTheme |-> "light"]
  /\ mounted = TRUE
  /\ inFlight = FALSE
  /\ isSaving = FALSE
  /\ status = [kind |-> "idle", message |-> MsgReady]
  /\ hideUi = FALSE
  /\ mode = "element"
  /\ themeSelection = "current"
  /\ adapterTheme = "light"
  /\ pending = {}
  /\ req = [s \in Slots |-> IdleReq]
  /\ dropped = FALSE

CropInit ==
  /\ WidgetIdle
  /\ crop \in ViewportCropInputs \cup ElementCropInputs
  /\ fnCall = NoCall

ApplyViewportCrop ==
  /\ crop.fn = "viewport"
  /\ ~crop.done
  /\ crop' = [crop EXCEPT !.done = TRUE,
                          !.out = GetViewportCrop(crop.scale, crop.W, crop.H,
                                    crop.innerWidth, crop.innerHeight,
                                    crop.scrollX, crop.scrollY)]
  /\ UNCHANGED <<props, mounted, inFlight, isSaving, status, hideUi, mode,
                 themeSelection, adapterTheme, pending, req, dropped, fnCall>>

ApplyElementCrop ==
  /\ crop.fn = "element"
  /\ ~crop.done
  /\ crop' = [crop EXCEPT !.done = TRUE,
                          !.out = CropElementFromViewportCanvas(crop.W, crop.H,
                                    crop.rect, crop.scale, crop.padding)]
  /\ UNCHANGED <<props, mounted, inFlight, isSaving, status, hideUi, mode,
                 themeSelection, adapterTheme, pending, req, dropped, fnCall>>

CropNext == ApplyViewportCrop \/ ApplyElementCrop

CropSpec == CropInit /\ [][CropNext]_vars

\* C10 as stated: every crop rectangle computed by getViewportCrop and by
\* cropElementFromViewportCanvas lies inside the W x H source canvas and is at
\* least 1 x 1.
C10_CropContained ==
  crop.fn # "none" /\ crop.done =>
    /\ 0 <= crop.out.sx
    /\ 0 <= crop.out.sy
    /\ crop.out.sx + crop.out.sw <= crop.W
    /\ crop.out.sy + crop.out.sh <= crop.H
    /\ crop.out.sw >= 1
    /\ crop.out.sh >= 1

(***************************************************************************)
(* Element target resolver.  The raw target and its ancestors below <body>  *)
(* are a chain, innermost first; a node carries what the resolver reads of  *)
(* it: the chrome marker, its bounding box and its computed style.          *)
(***************************************************************************)
MaxChain == 3    \* the raw target has at most MaxChain - 1 ancestors below <body>
MaxDepth == 8    \* maxDepth
MaxPad == 7      \* levels of inline text below a chain

NotWidgetElement(chain, i) == FALSE

\* isWidgetElement(element): element.closest('[data-screenshotter-ui="true"]'),
\* the element itself or one of its ancestors carries the marker
IsWidgetElement(chain, i) == \E j \in i..Len(chain) : chain[j].marked

StartsWith(str, prefix) ==
  Len(str) >= Len(prefix) /\ SubSeq(str, 1, Len(prefix)) = prefix

TxtInline == <<"i", "n", "l", "i", "n", "e">>
TxtFlex == <<"f", "l", "e", "x">>
TxtGrid == <<"g", "r", "i", "d">>
TxtBlock == <<"b", "l", "o", "c", "k">>
TxtInlineFlex == TxtInline \o <<"-">> \o TxtFlex

\* the loop of resolveElementCaptureTarget from `current` on; fallbackArea is
\* {} for Number.POSITIVE_INFINITY
RECURSIVE ResolveFrom(_, _, _, _, _)
ResolveFrom(chain, viewportArea, current, fallback, fallbackArea) ==
  IF current > Len(chain) \/ current - 1 > MaxDepth
    THEN fallback
    ELSE
      LET node == chain[current]
          depth == current - 1
          area == node.width * node.height
          hasBackground == node.hasBackground
          hasBorder == node.hasBorder
          hasShadow == node.hasShadow
          hasRadius == node.hasRadius
          isInline == StartsWith(node.display, TxtInline)
          isLayoutContainer ==
            /\ Includes(node.display, TxtFlex) \/ Includes(node.display, TxtGrid)
            /\ node.children > 1
            /\ ~hasBackground
            /\ ~hasBorder
            /\ ~hasShadow
          tracked == ~isInline /\ \A a \in fallbackArea : area < a
          fallback1 == IF tracked THEN current ELSE fallback
          fallbackArea1 == IF tracked THEN {area} ELSE fallbackArea
          hasVisualSurface == hasBackground \/ hasBorder \/ hasShadow \/ hasRadius
      IN IF IsWidgetElement(chain, current)
           THEN ResolveFrom(chain, viewportArea, current + 1, fallback, fallbackArea)
         ELSE IF node.width < 8 \/ node.height < 8
           THEN ResolveFrom(chain, viewportArea, current + 1, fallback, fallbackArea)
         ELSE IF area * 100 >= 55 * viewportArea
           THEN ResolveFrom(chain, viewportArea, current + 1, fallback, fallbackArea)
         ELSE IF hasVisualSurface /\ area * 100 <= 18 * viewportArea
           THEN current
         ELSE IF ~isLayoutContainer /\ ~isInline /\ depth <= 2
                   /\ area * 100 <= 8 * viewportArea
           THEN current
         ELSE ResolveFrom(chain, viewportArea, current + 1, fallback1, fallbackArea1)

ResolveInHugeViewport(chain, innerWidth, innerHeight) ==
  ResolveFrom(chain, 1000 * 1000, 1, 1, {})

\* resolveElementCaptureTarget(rawTarget): the position in the chain of the
\* element returned (1 is rawTarget)
ResolveElementCaptureTarget(chain, innerWidth, innerHeight) ==
  ResolveFrom(chain, Max(1, innerWidth * innerHeight), 1, 1, {})

\* what elements look like: a glyph-sized leaf, a page wrapper, a card, a
\* compact block, inline text, a layout row, a plain section
Looks ==
  {[width |-> 4, height |-> 4, hasBackground |-> FALSE, hasBorder |-> FALSE,
    hasShadow |-> FALSE, hasRadius |-> FALSE, display |-> TxtBlock, children |-> 0],
   [width |-> 100, height |-> 60, hasBackground |-> TRUE, hasBorder |-> FALSE,
    hasShadow |-> FALSE, hasRadius |-> FALSE, display |-> TxtBlock, children |-> 2],
   [width |-> 50, height |-> 30, hasBackground |-> FALSE, hasBorder |-> TRUE,
    hasShadow |-> FALSE, hasRadius |-> TRUE, display |-> TxtBlock, children |-> 2],
   [width |-> 25, height |-> 20, hasBackground |-> FALSE, hasBorder |-> FALSE,
    hasShadow |-> FALSE, hasRadius |-> FALSE, display |-> TxtBlock, children |-> 1],
   [width |-> 25, height |-> 20, hasBackground |-> FALSE, hasBorder |-> FALSE,
    hasShadow |-> FALSE, hasRadius |-> FALSE, display |-> TxtInlineFlex, children |-> 2],
   [width |-> 70, height |-> 10, hasBackground |-> FALSE, hasBorder |-> FALSE,
    hasShadow |-> FALSE, hasRadius |-> FALSE, display |-> TxtGrid, children |-> 2],
   [width |-> 60, height |-> 50, hasBackground |-> FALSE, hasBorder |-> FALSE,
    hasShadow |-> TRUE, hasRadius |-> FALSE, display |-> TxtBlock, children |-> 3]}

Nodes ==
  {[marked |-> m, width |-> l.width, height |-> l.height,
    hasBackground |-> l.hasBackground, hasBorder |-> l.hasBorder,
    hasShadow |-> l.hasShadow, hasRadius |-> l.hasRadius, display |-> l.display,
    children |-> l.children] : m \in BOOLEAN, l \in Looks}

\* inline text without a box of its own: the resolver passes over it
Filler ==
  [marked |-> FALSE, width |-> 25, height |-> 20, hasBackground |-> FALSE,
   hasBorder |-> FALSE, hasShadow |-> FALSE, hasRadius |-> FALSE,
   display |-> TxtInline, children |-> 0]

\* every chain of up to MaxChain nodes, and the chains without chrome again
\* below up to MaxPad levels of inline text, which reach beyond maxDepth
Chains ==
  UNION {[1..n -> Nodes] : n \in 1..MaxChain}
    \cup {[i \in 1..k |-> Filler] \o c :
           k \in 1..MaxPad,
           c \in UNION {[1..n -> {node \in Nodes : ~node.marked}] : n \in 1..MaxChain}}

ResolverInputs ==
  [fn : {"resolveElementCaptureTarget"}, done : {FALSE}, chain : Chains,
   innerWidth : {100}, innerHeight : {100}, out : {0}]

ResolverInit ==
  /\ WidgetIdle
  /\ crop = NoCrop
  /\ fnCall \in ResolverInputs

ApplyResolveElementCaptureTarget ==
  /\ fnCall.fn = "resolveElementCaptureTarget"
  /\ ~fnCall.done
  /\ fnCall' = [fnCall EXCEPT !.done = TRUE,
                              !.out = ResolveElementCaptureTarget(fnCall.chain,
                                        fnCall.innerWidth, fnCall.innerHeight)]
  /\ UNCHANGED <<props, mounted, inFlight, isSaving, status, hideUi, mode,
                 themeSelection, adapterTheme, pending, req, dropped, crop>>

ResolverNext == ApplyResolveElementCaptureTarget

ResolverSpec == ResolverInit /\ [][ResolverNext]_vars

\* C11 as stated: the element resolveElementCaptureTarget returns is never
\* marked as, or nested inside, the widget's chrome, whatever the raw target.
C11_ResolverExcludesChrome ==
  (fnCall.fn = "resolveElementCaptureTarget" /\ fnCall.done) =>
    /\ fnCall.out \in 1..Len(fnCall.chain)
    /\ ~IsWidgetElement(fnCall.chain, fnCall.out)

(***************************************************************************)
(* Quality to scale                                                        *)
(***************************************************************************)
MaxOver == 5     \* qualities from 1 - MaxOver to 100 + MaxOver

Qualities == (1 - MaxOver)..(100 + MaxOver)

ScaleInputs ==
  [fn : {"clampQualityToScale"}, done : {FALSE}, q1 : Qualities, q2 : Qualities,
   out1 : {0}, out2 : {0}]

ScaleInit ==
  /\ WidgetIdle
  /\ crop = NoCrop
  /\ fnCall \in ScaleInputs

ApplyClampQualityToScale ==
  /\ fnCall.fn = "clampQualityToScale"
  /\ ~fnCall.done
  /\ fnCall' = [fnCall EXCEPT !.done = TRUE,
                              !.out1 = ClampQualityToScale(fnCall.q1),
                              !.out2 = ClampQualityToScale(fnCall.q2)]
  /\ UNCHANGED <<props, mounted, inFlight, isSaving, status, hideUi, mode,
                 themeSelection, adapterTheme, pending, req, dropped, crop>>

ScaleNext == ApplyClampQualityToScale

ScaleSpec == ScaleInit /\ [][ScaleNext]_vars

\* C12: for integer qualities in 1..100 the scale lies in [1.00, 2.00], is 1.00
\* at quality 1 and 2.00 at quality 100 and does not decrease with the
\* quality; below 1 and above 100 it is the scale of the nearest bound.
C12_ScaleBoundedMonotone ==
  (fnCall.fn = "clampQualityToScale" /\ fnCall.done) =>
    LET q1 == fnCall.q1
        q2 == fnCall.q2
    IN /\ q1 \in 1..100 => (100 <= fnCall.out1 /\ fnCall.out1 <= 200)
       /\ q1 = 1 => fnCall.out1 = 100
       /\ q1 = 100 => fnCall.out1 = 200
       /\ (q1 \in 1..100 /\ q2 \in 1..100 /\ q1 <= q2) => fnCall.out1 <= fnCall.out2
       /\ (q1 < 1 /\ q2 = 1) => fnCall.out1 = fnCall.out2
       /\ (q1 > 100 /\ q2 = 100) => fnCall.out1 = fnCall.out2

\* the scales of two neighbouring qualities inside the range and of a quality
\* beyond it have been computed
C12_Witness ==
  /\ fnCall.fn = "clampQualityToScale"
  /\ fnCall.done
  /\ \/ fnCall.q1 = 50 /\ fnCall.q2 = 51 /\ fnCall.out1 = 149 /\ fnCall.out2 = 151
     \/ fnCall.q1 = 100 + MaxOver /\ fnCall.q2 = 100 /\ fnCall.out1 = 200

(***************************************************************************)
(* One call of renderWithHtml2Canvas, by itself: its attempts, what they    *)
(* threw and how the call settled.                                          *)
(***************************************************************************)
\* 'Unsupported Color Function: OKLAB(0.5 0 0)'
EnvColorErrorOklab ==
  <<"U","n","s","u","p","p","o","r","t","e","d"," ","C","o","l","o","r"," ","F","u","n","c","t","i","o","n",":"," ","O","K","L","A","B","(","0",".","5"," ","0"," ","0",")">>
\* 'Attempting to parse an unsupported color function "lab"'
EnvLabError ==
  <<"A","t","t","e","m","p","t","i","n","g"," ","t","o"," ","p","a","r","s","e"," ","a","n"," ","u","n","s","u","p","p","o","r","t","e","d"," ","c","o","l","o","r"," ","f","u","n","c","t","i","o","n"," ","\"","l","a","b","\"">>
\* 'oklch is not supported'
EnvOklchUndefined ==
  <<"o","k","l","c","h"," ","i","s"," ","n","o","t"," ","s","u","p","p","o","r","t","e","d">>

\* what an attempt of html2canvas throws
AttemptErrors ==
  {Err("Error", m) : m \in {EnvRenderFailed, EnvColorError, EnvColorErrorOklab,
                            EnvLabError, EnvOklchUndefined}}

NoError == Err("none", <<>>)

RenderInputs ==
  [fn : {"renderWithHtml2Canvas"}, mode : Modes, pc : {"start"}, attempts : {<<>>},
   errors : {<<>>}, raised : {NoError}]

RenderInit ==
  /\ WidgetIdle
  /\ crop = NoCrop
  /\ fnCall \in RenderInputs

\* renderWithHtml2Canvas up to its first await: html2canvas(target, primaryOptions)
CallRenderWithHtml2Canvas ==
  /\ fnCall.fn = "renderWithHtml2Canvas"
  /\ fnCall.pc = "start"
  /\ fnCall' = [fnCall EXCEPT !.pc = "primary",
                              !.attempts = <<ForeignObjectOf(fnCall.mode, 1)>>]
  /\ UNCHANGED <<props, mounted, inFlight, isSaving, status, hideUi, mode,
                 themeSelection, adapterTheme, pending, req, dropped, crop>>

\* the first attempt settles; when it threw: html2canvas(target, fallbackOptions)
PrimaryAttemptSettled(threw, error) ==
  /\ fnCall.fn = "renderWithHtml2Canvas"
  /\ fnCall.pc = "primary"
  /\ fnCall' = IF threw
                 THEN [fnCall EXCEPT !.pc = "fallback",
                                     !.errors = Append(@, error),
                                     !.attempts = Append(@, ForeignObjectOf(fnCall.mode, 2))]
                 ELSE [fnCall EXCEPT !.pc = "returned"]
  /\ UNCHANGED <<props, mounted, inFlight, isSaving, status, hideUi, mode,
                 themeSelection, adapterTheme, pending, req, dropped, crop>>

\* the second attempt settles
FallbackAttemptSettled(threw, error) ==
  /\ fnCall.fn = "renderWithHtml2Canvas"
  /\ fnCall.pc = "fallback"
  /\ fnCall' = IF threw
                 THEN [fnCall EXCEPT !.pc = "thrown",
                                     !.errors = Append(@, error),
                                     !.raised = RenderWithHtml2CanvasRaise(
                                                  fnCall.errors[1], error)]
                 ELSE [fnCall EXCEPT !.pc = "returned"]
  /\ UNCHANGED <<props, mounted, inFlight, isSaving, status, hideUi, mode,
                 themeSelection, adapterTheme, pending, req, dropped, crop>>

RenderNext ==
  \/ CallRenderWithHtml2Canvas
  \/ \E threw \in BOOLEAN, error \in AttemptErrors : PrimaryAttemptSettled(threw, error)
  \/ \E threw \in BOOLEAN, error \in AttemptErrors : FallbackAttemptSettled(threw, error)

RenderSpec == RenderInit /\ [][RenderNext]_vars

\* C15: a call of the primary renderer makes at most two attempts, the second
\* only when the first threw; rendering the viewport or the full page embeds
\* foreign objects in the first attempt and not in the second, rendering the
\* element directly does not in the first and does in the second.
C15_AttemptOrder ==
  (fnCall.fn = "renderWithHtml2Canvas" /\ fnCall.pc # "start") =>
    /\ Len(fnCall.attempts) \in 1..2
    /\ Len(fnCall.attempts) = 2 => Len(fnCall.errors) >= 1
    /\ \A i \in 1..Len(fnCall.attempts) :
         fnCall.attempts[i] = IF fnCall.mode = "element" THEN i = 2 ELSE i = 1

\* a direct rendering of the element has thrown after its two attempts
C15_Witness ==
  /\ fnCall.fn = "renderWithHtml2Canvas"
  /\ fnCall.mode = "element"
  /\ fnCall.pc = "thrown"
  /\ fnCall.attempts = <<FALSE, TRUE>>

\* C16 as stated: renderWithHtml2Canvas throws the 'unsupported color
\* functions could not be normalized' error exactly when both attempts threw
\* unsupported-color-function errors, and otherwise rethrows the second
\* attempt's error.
C16_DiagnosisWhenBoth ==
  (fnCall.fn = "renderWithHtml2Canvas" /\ fnCall.pc = "thrown") =>
    /\ Len(fnCall.errors) = 2
    /\ IF /\ IsUnsupportedColorFunctionError(fnCall.errors[1])
          /\ IsUnsupportedColorFunctionError(fnCall.errors[2])
         THEN fnCall.raised = Err("Error", MsgColorFunctions)
         ELSE fnCall.raised = fnCall.errors[2]

(***************************************************************************)
(* Properties of the capture orchestrator                                  *)
(***************************************************************************)
Running(s) == req[s].pc # "idle"
Finished(s) == req[s].pc = "idle" /\ req[s].outcome \in {"success", "error", "cancelled"}
CaptureSteps == {"html2canvas", "toCanvas", "fetch", "json"}

\* C1: while a request has not finished, a further trigger has no effect: at
\* most one activation of executeCapture is running, the guard is set as long as
\* the mounted widget has a running request, rasterization is started by one
\* activation only, and a request makes at most one sink call per theme, exactly
\* one per theme when it succeeds.
C1_SingleFlight ==
  /\ Cardinality({s \in Slots : Running(s)}) <= 1
  /\ \A s \in Slots : (mounted /\ Running(s)) => inFlight
  /\ Cardinality({s \in Slots : req[s].rasterIters # {}}) <= 1
  /\ \A s \in Slots :
       /\ Len(req[s].sinkCalls) <= Len(req[s].themes)
       /\ Cardinality(req[s].rasterIters) <= Len(req[s].themes)
       /\ req[s].outcome = "success" => Len(req[s].sinkCalls) = Len(req[s].themes)

\* a trigger was dropped at the guard and the request then saved both themes
C1_Witness ==
  /\ dropped
  /\ req[1].pc = "restore"
  /\ req[1].outcome = "success"
  /\ Len(req[1].sinkCalls) = 2
  /\ req[2] = IdleReq

\* C2: a sink call outstanding at unmount has its signal aborted, and the
\* request whose sink call was aborted ends cancelled: it calls neither onError
\* nor onSaved for that call and the status is not an error.
C2_AbortOnUnmount ==
  \A s \in Slots :
    /\ (~mounted /\ req[s].pc = "fetch" /\ s \notin pending) => req[s].signal = "aborted"
    /\ (req[s].signal = "aborted" /\ req[s].pc # "fetch") =>
         /\ req[s].outcome = "cancelled"
         /\ req[s].onError = <<>>
         /\ Len(req[s].onSaved) = Len(req[s].sinkCalls) - 1
         /\ status.kind = "saving"

\* the aborted sink call's rejection has been handled
C2_Witness ==
  /\ ~mounted
  /\ req[1].signal = "aborted"
  /\ req[1].pc = "idle"
  /\ req[1].outcome = "cancelled"

\* C3: with a theme adapter, when a request that entered Saving with original
\* theme X has finished (success, error or cancellation), the last setTheme call
\* it made has argument X.
C3_ThemeRestored ==
  \A s \in Slots :
    (props.hasAdapter /\ Finished(s)) =>
      /\ req[s].setThemeCalls # <<>>
      /\ req[s].setThemeCalls[Len(req[s].setThemeCalls)] = req[s].originalTheme

\* a both-theme request failed in its second iteration and has finished
C3_Witness ==
  /\ Finished(1)
  /\ req[1].outcome = "error"
  /\ Len(req[1].results) = 1
  /\ Len(req[1].setThemeCalls) = 3
  /\ req[1].setThemeCalls[2] # req[1].originalTheme

ExplicitOpposite(theme) == IF theme = "dark" THEN "light" ELSE "dark"

\* C4 as stated: a successful both-theme request starting from X makes exactly
\* the setTheme calls [X, opposite(X)].
C4_CallsAreXOpposite ==
  \A s \in Slots :
    (Finished(s) /\ req[s].themeSelection = "both" /\ req[s].outcome = "success") =>
      req[s].setThemeCalls =
        <<req[s].originalTheme, ExplicitOpposite(req[s].originalTheme)>>

\* C4 amended: a successful both-theme request starting from X makes exactly the
\* setTheme calls [X, opposite(X), X]: one per iteration, then the restoring call.
C4_CallsAreXOppositeX ==
  \A s \in Slots :
    (Finished(s) /\ req[s].themeSelection = "both" /\ req[s].outcome = "success") =>
      req[s].setThemeCalls =
        <<req[s].originalTheme, ExplicitOpposite(req[s].originalTheme),
          req[s].originalTheme>>

\* a both-theme request has finished with both themes saved
C4_Witness ==
  /\ Finished(1)
  /\ req[1].themeSelection = "both"
  /\ req[1].outcome = "success"
  /\ Len(req[1].onSaved) = 2

\* C5: a step that sets one of the two precondition messages changes nothing but
\* the status and is taken with the guard and the saving flag unset; and no
\* request enters Saving in element mode without an element, or for both themes
\* without an adapter.
C5_PreconditionStep ==
  (status' # status /\ status'.message \in {MsgPickElementFirst, MsgAdapterRequired}) =>
    /\ status'.kind = "error"
    /\ ~inFlight /\ ~inFlight'
    /\ isSaving' = isSaving
    /\ UNCHANGED <<props, mounted, hideUi, mode, themeSelection, adapterTheme, pending,
                   req, dropped>>
    /\ \/ mode = "element" /\ status'.message = MsgPickElementFirst
       \/ themeSelection = "both" /\ ~props.hasAdapter
            /\ status'.message = MsgAdapterRequired

C5_Accepted ==
  \A s \in Slots :
    req[s].outcome # "none" =>
      /\ req[s].mode = "element" => req[s].sel
      /\ req[s].themeSelection = "both" => props.hasAdapter

C5_PreconditionRejected == [](C5_Accepted) /\ [][C5_PreconditionStep]_vars

\* a request was rejected for its missing element before any request ran
C5_Witness ==
  /\ status = [kind |-> "error", message |-> MsgPickElementFirst]
  /\ \A s \in Slots : req[s] = IdleReq
  /\ ~inFlight
  /\ ~isSaving

\* C6 as stated: a request that entered Saving and has finished while the
\* widget is mounted leaves the status at success or error, success only if
\* every theme iteration completed.
C6_TerminalStatus ==
  \A s \in Slots :
    (mounted /\ Finished(s)) =>
      /\ status.kind \in {"success", "error"}
      /\ status.kind = "success" => Len(req[s].results) = Len(req[s].themes)

\* C7: in a both-theme request the payloads sent are X then opposite(X); the
\* second theme is set, rasterized and sent only after the first sink call was
\* acknowledged; a successful request has sent exactly the two.
C7_SequentialThemes ==
  \A s \in Slots :
    (req[s].themeSelection = "both" /\ req[s].outcome # "none") =>
      LET r == req[s]
          X == r.originalTheme
      IN /\ Len(r.sinkCalls) <= 2
         /\ \A i \in 1..Len(r.sinkCalls) :
              r.sinkCalls[i].theme = IF i = 1 THEN X ELSE ExplicitOpposite(X)
         /\ Len(r.sinkCalls) = 2 => Len(r.results) >= 1
         /\ 2 \in r.rasterIters => Len(r.results) >= 1
         /\ (Len(r.setThemeCalls) >= 2 /\ r.setThemeCalls[2] # X) => Len(r.results) >= 1
         /\ (Running(s) /\ r.pc \in CaptureSteps) => r.idx = Len(r.results) + 1
         /\ r.outcome = "success" => Len(r.sinkCalls) = 2

\* the second payload of a both-theme request is at the sink
C7_Witness ==
  /\ req[1].themeSelection = "both"
  /\ req[1].pc = "fetch"
  /\ Len(req[1].sinkCalls) = 2
  /\ req[1].sinkCalls[2].theme # req[1].originalTheme

\* C8 as stated: when the sink call of an iteration failed and the request has
\* finished with the widget mounted, no later theme was set, rasterized or sent
\* and the status is an error.
C8_SinkFailureEndsInError ==
  \A s \in Slots :
    (mounted /\ Finished(s) /\ Len(req[s].sinkCalls) > Len(req[s].results)) =>
      LET r == req[s]
          failedAt == Len(r.sinkCalls)
      IN /\ \A i \in r.rasterIters : i <= failedAt
         /\ r.setThemeCalls = IF props.hasAdapter
                                THEN SubSeq(r.themes, 1, failedAt) \o <<r.originalTheme>>
                                ELSE <<>>
         /\ status.kind = "error"

\* C9 as stated: in the mounted widget the hide flag is set during the
\* rasterize, encode and sink steps, and is unset whenever no iteration is
\* between setting the flag and its end.
C9_HideFlagScoped ==
  mounted =>
    /\ (\E s \in Slots : req[s].pc \in CaptureSteps) => hideUi
    /\ (\A s \in Slots : req[s].pc \notin (CaptureSteps \cup {"paint", "assets"})) => ~hideUi

\* messages only the renderers produce
RendererMessages == {EnvRenderFailed, EnvColorError, MsgColorFunctions}

\* C13: in element mode the first rasterization of an iteration is of the
\* document (viewport render, then crop); the selected element is rasterized
\* directly only after the viewport path of the primary renderer and then the
\* viewport path of the fallback renderer have failed, by one call of the
\* primary renderer per iteration.
C13_ViewportFirst ==
  \A s \in Slots :
    (req[s].mode = "element" /\ req[s].rasters # <<>>) =>
      LET rs == req[s].rasters
      IN /\ rs[1].lib = "html2canvas" /\ rs[1].target = "document"
         /\ \A i \in 1..Len(rs) :
              rs[i].target = "element" =>
                \E j \in 1..(i - 1) :
                  /\ rs[j].lib = "toCanvas"
                  /\ \E k \in 1..(j - 1) :
                       rs[k].lib = "html2canvas" /\ rs[k].target = "document"
         /\ Cardinality({i \in 1..Len(rs) : rs[i].target = "element" /\ rs[i].attempt = 1}) <= 1
         /\ Cardinality({i \in 1..Len(rs) : rs[i].target = "element"}) <= 2
         /\ Cardinality({i \in 1..Len(rs) : rs[i].lib = "toCanvas"}) <= 1

C13_DirectStep ==
  \A s \in Slots :
    (req'[s].stage = "elemDirect" /\ req[s].stage # "elemDirect") =>
      /\ req[s].pc = "toCanvas"
      /\ req[s].stage = "elemFallback"
      /\ req[s].fallbackError.name # "none" \/ req[s].cropFailed

C13_ElementViewportFirst == [](C13_ViewportFirst) /\ [][C13_DirectStep]_vars

\* the second attempt of the direct rasterization of the element is running
C13_Witness ==
  /\ req[1].mode = "element"
  /\ req[1].pc = "html2canvas"
  /\ req[1].stage = "elemDirect"
  /\ req[1].attempt = 2
  /\ Len(req[1].rasters) = 5

\* C14: in viewport and full-page mode an iteration calls the fallback
\* renderer at most once, and only when both attempts of the primary renderer
\* have thrown; it ends as a render failure only when the fallback renderer
\* has failed.
C14_RasterOrder ==
  \A s \in Slots :
    (req[s].mode # "element" /\ req[s].rasters # <<>>) =>
      LET rs == req[s].rasters
      IN /\ Len(rs) <= 3
         /\ \A i \in 1..Len(rs) :
              IF i <= 2
                THEN rs[i].lib = "html2canvas" /\ rs[i].attempt = i
                ELSE rs[i].lib = "toCanvas"

C14_FallbackStep ==
  \A s \in Slots :
    req[s].mode # "element" =>
      /\ (req'[s].pc = "toCanvas" /\ req[s].pc # "toCanvas") =>
           /\ req[s].pc = "html2canvas"
           /\ req[s].attempt = 2
           /\ req[s].primaryError.name # "none"
           /\ req'[s].fallbackError.name # "none"
      /\ (req[s].outcome = "running" /\ req'[s].outcome = "error"
            /\ req'[s].thrown.message \in RendererMessages) =>
           req[s].pc = "toCanvas"

C14_FallbackAfterPrimary == [](C14_RasterOrder) /\ [][C14_FallbackStep]_vars

\* a viewport request ended as a render failure
C14_Witness ==
  /\ req[1].mode = "viewport"
  /\ Finished(1)
  /\ req[1].outcome = "error"
  /\ req[1].thrown.message = EnvRenderFailed

\* C17 as stated: when an iteration of the mounted widget fails with all
\* renderer attempts failed, the message reported is the 'unsupported color
\* functions' diagnosis if the attempts of the primary renderer threw
\* unsupported-color-function errors, and a renderer's own message if none did.
C17_RenderFailureStep ==
  \A s \in Slots :
    (/\ mounted
     /\ req[s].outcome = "running"
     /\ req'[s].outcome = "error"
     /\ req'[s].thrown.message \in RendererMessages) =>
      LET first == IsUnsupportedColorFunctionError(req[s].primaryError)
          second == IsUnsupportedColorFunctionError(req[s].fallbackError)
          direct == req[s].stage = "elemDirect"
      IN /\ status'.kind = "error"
         /\ (first /\ (direct \/ second)) => status'.message = MsgColorFunctions
         /\ (~first /\ ~direct /\ ~second) => status'.message \in {EnvRenderFailed, EnvColorError}
         /\ (~first /\ direct /\ status'.message # MsgColorFunctions) =>
              status'.message \in {EnvRenderFailed, EnvColorError}

C17_ColorDiagnosisReported == [][C17_RenderFailureStep]_vars

\* C18 as stated: when cropCanvas could not obtain a 2D context the request
\* ends in an error carrying that failure; it is not followed by another
\* rendering attempt or by a saved capture.
C18_CropFailureSurfaced ==
  \A s \in Slots :
    req[s].cropFailed =>
      /\ req[s].pc \in {"restore", "idle"}
      /\ req[s].outcome = "error"
      /\ req[s].thrown.message = MsgNo2dContext
      /\ req[s].onError = <<MsgNo2dContext>>

EncodeMessages == {MsgEncoderEmpty, MsgEncodeFailed}

\* C19: an empty encoder output, or a data URL with an empty base64 part, is
\* never sent to the sink; the iteration fails with the encoding error in the
\* step in which the encoder answered, with no further rasterization or sink
\* call, and the request ends in that error.
C19_EncodeFailed ==
  \A s \in Slots :
    /\ \A i \in 1..Len(req[s].sinkCalls) : req[s].sinkCalls[i].imageBase64 # <<>>
    /\ req[s].thrown.message \in EncodeMessages =>
         /\ req[s].pc \in {"restore", "idle"}
         /\ req[s].outcome = "error"
         /\ req[s].onError = <<req[s].thrown.message>>
         /\ Len(req[s].sinkCalls) = Len(req[s].results)
         /\ req[s].rasters = <<>>

C19_EncodeStep ==
  \A s \in Slots :
    (req[s].outcome = "running" /\ req'[s].thrown.message \in EncodeMessages) =>
      /\ req[s].pc \in {"html2canvas", "toCanvas"}
      /\ req'[s].sinkCalls = req[s].sinkCalls
      /\ req'[s].rasterIters = req[s].rasterIters
      /\ mounted => status' = [kind |-> "error", message |-> req'[s].thrown.message]

C19_EncodeFailureTerminal == [](C19_EncodeFailed) /\ [][C19_EncodeStep]_vars

\* the second iteration of a both-theme request failed on a data URL without
\* a base64 part
C19_Witness ==
  /\ Finished(1)
  /\ req[1].thrown.message = MsgEncodeFailed
  /\ Len(req[1].results) = 1
  /\ Len(req[1].sinkCalls) = 1

\* the failure reasons the sink answers with
SinkReasons == {EnvDiskFull, EnvUploadAborted}

\* C20 as stated: when the sink answers the mounted widget with a failure
\* reason, the request ends in the error status with that reason as its
\* message and onError is called once with it, whatever the reason.
C20_ReasonStep ==
  \A s \in Slots :
    (/\ mounted
     /\ req[s].pc = "json"
     /\ req'[s].pc # "json"
     /\ req'[s].thrown.message \in SinkReasons) =>
      /\ req'[s].outcome = "error"
      /\ status' = [kind |-> "error", message |-> req'[s].thrown.message]
      /\ req'[s].onError = <<req'[s].thrown.message>>

C20_ReasonVerbatim == [][C20_ReasonStep]_vars

\* ---------------------------------------------------------------------------
\* waitForVisualAssetsReady: the wait for web fonts and image decodes, raced
\* against a timer.  A promise is "none" (no promise: the value undefined),
\* "pending", "fulfilled" or "rejected".
\* ---------------------------------------------------------------------------

MaxImages == 2
AssetTimeoutMs == 2500

NoCatch(p) == p

\* promise.catch(() => undefined)
CatchUndefined(p) == IF p = "rejected" THEN "fulfilled" ELSE p

\* Promise.all over a set of promise states; a non-promise counts as a value
PromiseAll(ps) ==
  IF "rejected" \in ps THEN "rejected"
  ELSE IF "pending" \in ps THEN "pending"
  ELSE "fulfilled"

RaceWaitsForAssets(assets, timer) == assets

\* Promise.race([assets, waitForMs(timeoutMs)]) while nothing had won before
PromiseRace(assets, timer) ==
  IF assets # "pending" THEN assets
  ELSE IF timer = "fired" THEN "fulfilled"
  ELSE "pending"

\* the promise waitForVisualAssetsReady awaits
AssetsRace(c) ==
  IF c.race # "pending" THEN c.race
  ELSE PromiseRace(
         PromiseAll({CatchUndefined(c.fonts),
                     PromiseAll({CatchUndefined(c.decodes[i]) :
                                   i \in 1..Len(c.decodes)})}),
         c.timer)

ImageLists == UNION {[1..n -> BOOLEAN] : n \in 0..MaxImages}

\* document.fonts present or not, the images of the document with their
\* complete flag, and whether images have a decode method
AssetInputs ==
  [fn : {"waitForVisualAssetsReady"}, pc : {"start"}, hasFonts : BOOLEAN,
   hasDecode : BOOLEAN, complete : ImageLists, timeoutMs : {AssetTimeoutMs},
   fonts : {"none"}, decodes : {<<>>}, timer : {"idle"}, race : {"pending"}]

AssetInit ==
  /\ WidgetIdle
  /\ crop = NoCrop
  /\ fnCall \in AssetInputs

\* the synchronous part of waitForVisualAssetsReady, up to its await
CallWaitForVisualAssetsReady ==
  /\ fnCall.fn = "waitForVisualAssetsReady"
  /\ fnCall.pc = "start"
  /\ LET n == Len(fnCall.complete)
         started == [fnCall EXCEPT
                       !.pc = "racing",
                       !.fonts = IF fnCall.hasFonts THEN "pending" ELSE "none",
                       !.decodes = [i \in 1..n |->
                                      IF fnCall.complete[i] THEN "none"
                                                            ELSE "pending"],
                       !.timer = "armed"]
     IN fnCall' = IF ~fnCall.hasDecode /\ \E i \in 1..n : ~fnCall.complete[i]
                    THEN [fnCall EXCEPT !.pc = "threw"]
                    ELSE [started EXCEPT !.race = AssetsRace(started)]
  /\ UNCHANGED <<props, mounted, inFlight, isSaving, status, hideUi, mode,
                 themeSelection, adapterTheme, pending, req, dropped, crop>>

\* document.fonts.ready settles
FontsSettled(ok) ==
  /\ fnCall.fn = "waitForVisualAssetsReady"
  /\ fnCall.fonts = "pending"
  /\ LET settled == [fnCall EXCEPT !.fonts = IF ok THEN "fulfilled" ELSE "rejected"]
     IN fnCall' = [settled EXCEPT !.race = AssetsRace(settled)]
  /\ UNCHANGED <<props, mounted, inFlight, isSaving, status, hideUi, mode,
                 themeSelection, adapterTheme, pending, req, dropped, crop>>

\* image.decode() of the i-th image settles
DecodeSettled(i, ok) ==
  /\ fnCall.fn = "waitForVisualAssetsReady"
  /\ i \in 1..Len(fnCall.decodes)
  /\ fnCall.decodes[i] = "pending"
  /\ LET settled == [fnCall EXCEPT
                       !.decodes[i] = IF ok THEN "fulfilled" ELSE "rejected"]
     IN fnCall' = [settled EXCEPT !.race = AssetsRace(settled)]
  /\ UNCHANGED <<props, mounted, inFlight, isSaving, status, hideUi, mode,
                 themeSelection, adapterTheme, pending, req, dropped, crop>>

\* the setTimeout of waitForMs(timeoutMs) fires
AssetTimerFired ==
  /\ fnCall.fn = "waitForVisualAssetsReady"
  /\ fnCall.timer = "armed"
  /\ LET fired == [fnCall EXCEPT !.timer = "fired"]
     IN fnCall' = [fired EXCEPT !.race = AssetsRace(fired)]
  /\ UNCHANGED <<props, mounted, inFlight, isSaving, status, hideUi, mode,
                 themeSelection, adapterTheme, pending, req, dropped, crop>>

\* the await of the race resumes
AssetAwaitResumed ==
  /\ fnCall.fn = "waitForVisualAssetsReady"
  /\ fnCall.pc = "racing"
  /\ fnCall.race # "pending"
  /\ fnCall' = [fnCall EXCEPT
                  !.pc = IF fnCall.race = "fulfilled" THEN "returned" ELSE "threw"]
  /\ UNCHANGED <<props, mounted, inFlight, isSaving, status, hideUi, mode,
                 themeSelection, adapterTheme, pending, req, dropped, crop>>

AssetNext ==
  \/ CallWaitForVisualAssetsReady
  \/ \E ok \in BOOLEAN : FontsSettled(ok)
  \/ \E i \in 1..MaxImages, ok \in BOOLEAN : DecodeSettled(i, ok)
  \/ AssetTimerFired
  \/ AssetAwaitResumed

\* an armed timer fires and a settled await resumes; fonts and decodes may
\* stay pending forever
AssetSpec ==
  /\ AssetInit
  /\ [][AssetNext]_vars
  /\ WF_vars(AssetTimerFired)
  /\ WF_vars(AssetAwaitResumed)

\* C21: the asset wait always completes: once it awaits the race it returns,
\* also when the fonts or a decode never settle, and it throws only when an
\* incomplete image has no decode method, never because a font or decode
\* promise was rejected.
C21_AssetWaitCompletes ==
  /\ [](fnCall.fn = "waitForVisualAssetsReady" /\ fnCall.pc = "threw" =>
          ~fnCall.hasDecode /\ fnCall.timer = "idle")
  /\ (fnCall.fn = "waitForVisualAssetsReady" /\ fnCall.pc = "racing")
       ~> (fnCall.pc = "returned")

\* the wait returned on the timer while the fonts were still pending and a
\* decode had been rejected
C21_Witness ==
  /\ fnCall.fn = "waitForVisualAssetsReady"
  /\ fnCall.pc = "returned"
  /\ fnCall.timer = "fired"
  /\ fnCall.fonts = "pending"
  /\ \E i \in 1..Len(fnCall.decodes) : fnCall.decodes[i] = "rejected"
  /\ \E i \in 1..Len(fnCall.decodes) : fnCall.decodes[i] = "pending"

\* ---------------------------------------------------------------------------
\* normalizeOklColorToken and the process-wide OKL_TOKEN_CACHE.  A token is
\* its function name and the number of channel tokens in its body.
\* ---------------------------------------------------------------------------

MaxChannels == 3

OklTokens == [type : {"ch", "ab"}, channels : 2..MaxChannels]

\* parseOklToken: null unless the body has exactly three channel tokens
ParseOklToken(token) ==
  IF token.channels # 3 THEN [kind |-> "null", token |-> token]
  ELSE [kind |-> "fallback", token |-> token]

\* what the live-DOM probe can observe: the browser resolved the token, the
\* assignment left style.color empty, or the computed colour still names an
\* unsupported function
ProbeOutcomes == {"resolved", "empty", "unsupported"}

NoEntry == [kind |-> "absent"]

\* resolveOklTokenWithBrowser: <<result, cache, probed>>
ResolveOklTokenWithBrowser(cache, token, hasResolver, probe) ==
  IF cache[token] # NoEntry THEN <<cache[token], cache, FALSE>>
  ELSE IF ~hasResolver THEN <<[kind |-> "null", token |-> token], cache, FALSE>>
  ELSE IF probe # "resolved" THEN <<[kind |-> "null", token |-> token], cache, TRUE>>
  ELSE LET resolved == [kind |-> "browser", token |-> token]
       IN <<resolved, [cache EXCEPT ![token] = resolved], TRUE>>

ColorInit ==
  /\ WidgetIdle
  /\ crop = NoCrop
  /\ fnCall = [fn |-> "normalizeOklColorToken",
               cache |-> [t \in OklTokens |-> NoEntry],
               attempted |-> {},
               last |-> NoCall]

\* one call of normalizeOklColorToken(token)
NormalizeOklColorToken(token, hasResolver, probe) ==
  /\ fnCall.fn = "normalizeOklColorToken"
  /\ LET browser == ResolveOklTokenWithBrowser(fnCall.cache, token, hasResolver, probe)
         parsed == ParseOklToken(token)
         viaBrowser == browser[1].kind # "null"
         result == IF viaBrowser THEN browser[1]
                   ELSE IF parsed.kind = "null" THEN [kind |-> "token", token |-> token]
                   ELSE parsed
     IN fnCall' = [fnCall EXCEPT
                     !.cache = IF viaBrowser \/ parsed.kind = "null"
                                 THEN browser[2]
                                 ELSE [browser[2] EXCEPT ![token] = parsed],
                     !.attempted = @ \cup {token},
                     !.last = [fn |-> "normalizeOklColorToken", token |-> token,
                               probed |-> browser[3], parsed |-> ~viaBrowser,
                               result |-> result]]
  /\ UNCHANGED <<props, mounted, inFlight, isSaving, status, hideUi, mode,
                 themeSelection, adapterTheme, pending, req, dropped, crop>>

ColorNext ==
  \E token \in OklTokens, hasResolver \in BOOLEAN, probe \in ProbeOutcomes :
    NormalizeOklColorToken(token, hasResolver, probe)

ColorSpec == ColorInit /\ [][ColorNext]_vars

\* a call of normalizeOklColorToken leaves its token in the cache, leaves
\* every earlier entry as it was, and probes and parses nothing for a token
\* normalized before
C22_CallStep ==
  (fnCall.fn = "normalizeOklColorToken" /\ fnCall' # fnCall) =>
    LET t == fnCall'.last.token
    IN /\ fnCall'.cache[t] # NoEntry
       /\ \A u \in OklTokens :
            fnCall.cache[u] # NoEntry => fnCall'.cache[u] = fnCall.cache[u]
       /\ t \in fnCall.attempted =>
            ~fnCall'.last.probed /\ ~fnCall'.last.parsed

\* C22 as stated: every token normalizeOklColorToken has resolved or attempted
\* is recorded in the cache, an entry is never removed or changed, and a later
\* normalization of the same token performs no DOM probe and no numeric parse.
C22_CacheEveryAttempt == [][C22_CallStep]_vars

\* the same for the tokens that were resolved: an entry is never removed or
\* changed, and a token with an entry is neither probed nor parsed again
C22_ResolvedStep ==
  (fnCall.fn = "normalizeOklColorToken" /\ fnCall' # fnCall) =>
    LET t == fnCall'.last.token
    IN /\ \A u \in OklTokens :
            fnCall.cache[u] # NoEntry => fnCall'.cache[u] = fnCall.cache[u]
       /\ fnCall'.last.result.kind \in {"browser", "fallback"} =>
            fnCall'.cache[t] = fnCall'.last.result
       /\ fnCall.cache[t] # NoEntry =>
            ~fnCall'.last.probed /\ ~fnCall'.last.parsed

C22_ResolvedCached == [][C22_ResolvedStep]_vars

\* ---------------------------------------------------------------------------
\* The save server: the request handler of startScreenshotterServer, one
\* request from its arrival to its response.
\* ---------------------------------------------------------------------------

MaxBodyChunks == 3

\* 'application/json'
TxtApplicationJson ==
  <<"a","p","p","l","i","c","a","t","i","o","n","/","j","s","o","n">>
\* 'Application/JSON; charset=utf-8'
EnvJsonCharset ==
  <<"A","p","p","l","i","c","a","t","i","o","n","/","J","S","O","N",";"," ","c","h","a","r","s","e","t","=","u","t","f","-","8">>
\* 'text/plain'
EnvTextPlain ==
  <<"t","e","x","t","/","p","l","a","i","n">>
\* 'QQ=='
EnvBase64 ==
  <<"Q","Q","=","=">>
\* '!'
EnvNotBase64 ==
  <<"!">>
\* 'Payload too large.'
MsgPayloadTooLarge ==
  <<"P","a","y","l","o","a","d"," ","t","o","o"," ","l","a","r","g","e",".">>

\* the last index of c in str, 0 when absent
LastIndexOf(str, c) ==
  IF \E i \in 1..Len(str) : str[i] = c
    THEN CHOOSE i \in 1..Len(str) : str[i] = c /\ \A j \in (i + 1)..Len(str) : str[j] # c
    ELSE 0

\* normalizeImageBase64: the text after the last comma
NormalizeImageBase64(raw) == SubSeq(raw, LastIndexOf(raw, ",") + 1, Len(raw))

Base64Alphabet ==
  {UpperChars[i] : i \in 1..Len(UpperChars)} \cup {LowerChars[i] : i \in 1..Len(LowerChars)}
    \cup {Digits[i] : i \in 1..Len(Digits)} \cup {"+", "/", "-", "_"}

\* Buffer.from(text, "base64").length: six bits per character of the
\* alphabet, whole bytes only
Base64ByteLength(text) ==
  (Cardinality({i \in 1..Len(text) : text[i] \in Base64Alphabet}) * 6) \div 8

\* ensureAllowedOrigin; a header is a sequence of zero or one value
EnsureAllowedOrigin(config, request) ==
  IF request.origin = <<>> \/ config.allowOrigins = <<>> THEN "undefined"
  ELSE IF \E i \in 1..Len(config.allowOrigins) : config.allowOrigins[i] = request.origin[1]
    THEN request.origin[1]
  ELSE "__forbidden__"

TokenAlwaysAccepted(config, request) == TRUE

\* the token check: no check without a configured token
TokenAccepted(config, request) ==
  config.token = "" \/ request.token = <<config.token>>

\* String(contentType).toLowerCase().includes("application/json")
IsJsonContentType(request) ==
  LET contentType == IF request.contentType = <<>> THEN <<>> ELSE request.contentType[1]
  IN Includes(ToLowerCase(contentType), TxtApplicationJson)

ServerConfigs ==
  [token : {"", "secret-token"}, allowOrigins : {<<>>, <<"http://a">>},
   byteLimit : 1..(MaxBodyChunks - 1)]

\* the bodies a request can carry: the number of chunks read, how the text
\* parses, whether validateCapturePayload accepts it, and its imageBase64
Bodies23 ==
  {b \in [chunks : 0..MaxBodyChunks, json : {"blank", "malformed", "object"},
          payloadValid : BOOLEAN,
          imageBase64 : {EnvBase64, EnvDataUrl, EnvDataUrlNoBody, EnvNotBase64}] :
     /\ b.chunks = 0 => b.json = "blank"
     /\ b.json # "object" => ~b.payloadValid
     /\ ~b.payloadValid => b.imageBase64 = EnvBase64}

RequestOf(method, path, origin, token, contentType, body) ==
  [method |-> method, path |-> path, origin |-> origin, token |-> token,
   contentType |-> contentType, chunks |-> body.chunks, json |-> body.json,
   payloadValid |-> body.payloadValid, imageBase64 |-> body.imageBase64]

\* POST /api/captures with every combination of headers and body, and the
\* other methods and paths
Requests ==
  {RequestOf("POST", "/api/captures", origin, token, contentType, body) :
     origin \in {<<>>, <<"http://a">>, <<"http://b">>},
     token \in {<<>>, <<"secret-token">>, <<"other">>},
     contentType \in {<<>>, <<TxtApplicationJson>>, <<EnvJsonCharset>>, <<EnvTextPlain>>},
     body \in Bodies23}
  \cup
  {RequestOf(method, path, origin, <<>>, <<TxtApplicationJson>>,
             [chunks |-> 1, json |-> "object", payloadValid |-> TRUE,
              imageBase64 |-> EnvBase64]) :
     method \in {"POST", "GET", "OPTIONS"},
     path \in {"/api/captures", "/api/health", "/"},
     origin \in {<<>>, <<"http://a">>, <<"http://b">>}}

ServerInit ==
  /\ WidgetIdle
  /\ crop = NoCrop
  /\ fnCall \in [fn : {"server"}, config : ServerConfigs, pc : {"listening"},
                 request : Requests]

Respond(c, statusCode) == [c EXCEPT !.pc = "responded", !.status = statusCode]

\* the catch of the handler
ServerCatch(c, message) ==
  Respond(c, IF message = MsgPayloadTooLarge THEN 413 ELSE 400)

\* the handler from the arrival of the request to the first read of its body
HandleRequest ==
  /\ fnCall.fn = "server"
  /\ fnCall.pc = "listening"
  /\ LET request == fnCall.request
         c == [fn |-> "server", config |-> fnCall.config, pc |-> "reading",
               request |-> request, size |-> 0, read |-> 0, status |-> 0,
               dirs |-> 0, files |-> 0]
         originState == EnsureAllowedOrigin(c.config, request)
     IN fnCall' =
          IF request.method = "OPTIONS" /\ request.path = "/api/captures"
            THEN IF originState = "__forbidden__" THEN Respond(c, 403)
                 ELSE Respond(c, 204)
          ELSE IF request.method = "GET" /\ request.path = "/api/health"
            THEN Respond(c, 200)
          ELSE IF request.method # "POST" \/ request.path # "/api/captures"
            THEN Respond(c, 404)
          ELSE IF originState = "__forbidden__" THEN Respond(c, 403)
          ELSE IF ~TokenAccepted(c.config, request) THEN Respond(c, 401)
          ELSE IF ~IsJsonContentType(request) THEN Respond(c, 415)
          ELSE c
  /\ UNCHANGED <<props, mounted, inFlight, isSaving, status, hideUi, mode,
                 themeSelection, adapterTheme, pending, req, dropped, crop>>

\* readJsonBody: one chunk of the body arrives
BodyChunk ==
  /\ fnCall.fn = "server"
  /\ fnCall.pc = "reading"
  /\ fnCall.read < fnCall.request.chunks
  /\ LET c == [fnCall EXCEPT !.read = @ + 1, !.size = @ + 1]
     IN fnCall' = IF c.size > c.config.byteLimit
                    THEN ServerCatch(c, MsgPayloadTooLarge)
                    ELSE c
  /\ UNCHANGED <<props, mounted, inFlight, isSaving, status, hideUi, mode,
                 themeSelection, adapterTheme, pending, req, dropped, crop>>

\* readJsonBody: the body ended; JSON.parse, validateCapturePayload,
\* buildCaptureFileParts and the call of fs.mkdir
BodyEnd ==
  /\ fnCall.fn = "server"
  /\ fnCall.pc = "reading"
  /\ fnCall.read = fnCall.request.chunks
  /\ fnCall' = IF fnCall.request.json # "object" THEN ServerCatch(fnCall, <<>>)
               ELSE IF ~fnCall.request.payloadValid THEN Respond(fnCall, 400)
               ELSE [fnCall EXCEPT !.pc = "mkdir"]
  /\ UNCHANGED <<props, mounted, inFlight, isSaving, status, hideUi, mode,
                 themeSelection, adapterTheme, pending, req, dropped, crop>>

\* fs.mkdir settles; the image is decoded and fs.writeFile called
MkdirSettled(ok) ==
  /\ fnCall.fn = "server"
  /\ fnCall.pc = "mkdir"
  /\ LET c == [fnCall EXCEPT !.dirs = @ + 1]
         bytes == Base64ByteLength(NormalizeImageBase64(c.request.imageBase64))
     IN fnCall' = IF ~ok THEN ServerCatch(fnCall, <<>>)
                  ELSE IF bytes = 0 THEN Respond(c, 400)
                  ELSE [c EXCEPT !.pc = "writeFile"]
  /\ UNCHANGED <<props, mounted, inFlight, isSaving, status, hideUi, mode,
                 themeSelection, adapterTheme, pending, req, dropped, crop>>

\* fs.writeFile settles
WriteFileSettled(ok) ==
  /\ fnCall.fn = "server"
  /\ fnCall.pc = "writeFile"
  /\ fnCall' = IF ok THEN Respond([fnCall EXCEPT !.files = @ + 1], 200)
               ELSE ServerCatch(fnCall, <<>>)
  /\ UNCHANGED <<props, mounted, inFlight, isSaving, status, hideUi, mode,
                 themeSelection, adapterTheme, pending, req, dropped, crop>>

ServerNext ==
  \/ HandleRequest
  \/ BodyChunk
  \/ BodyEnd
  \/ \E ok \in BOOLEAN : MkdirSettled(ok)
  \/ \E ok \in BOOLEAN : WriteFileSettled(ok)

ServerSpec == ServerInit /\ [][ServerNext]_vars

\* the checks of a capture request, stated on the request and the
\* configuration
C23_OriginAllowed ==
  \/ fnCall.request.origin = <<>>
  \/ fnCall.config.allowOrigins = <<>>
  \/ fnCall.request.origin = fnCall.config.allowOrigins

C23_TokenMatches ==
  fnCall.config.token # "" => fnCall.request.token = <<fnCall.config.token>>

C23_JsonContentType ==
  fnCall.request.contentType \in {<<TxtApplicationJson>>, <<EnvJsonCharset>>}

C23_CapturePost ==
  fnCall.request.method = "POST" /\ fnCall.request.path = "/api/captures"

C23_PassesEveryCheck ==
  /\ C23_CapturePost
  /\ C23_OriginAllowed
  /\ C23_TokenMatches
  /\ C23_JsonContentType
  /\ fnCall.request.chunks <= fnCall.config.byteLimit
  /\ fnCall.request.json = "object"
  /\ fnCall.request.payloadValid
  /\ fnCall.request.imageBase64 \in {EnvBase64, EnvDataUrl}

\* C23: the server writes a file, and answers a POST with 200, only for a
\* POST to /api/captures that passes every check; a capture request from an
\* allowed origin with a missing or wrong token is answered 401, and one that
\* passed the earlier checks with a body over the byte limit 413, both with
\* nothing written.
C23_WritesOnlyChecked ==
  (fnCall.fn = "server" /\ fnCall.pc # "listening") =>
    /\ fnCall.files > 0 => C23_PassesEveryCheck /\ fnCall.status = 200
    /\ fnCall.status = 200 /\ fnCall.request.method = "POST" =>
         C23_PassesEveryCheck /\ fnCall.files = 1
    /\ (C23_CapturePost /\ C23_OriginAllowed /\ ~C23_TokenMatches) =>
         fnCall.status = 401 /\ fnCall.files = 0 /\ fnCall.dirs = 0
    /\ (/\ fnCall.pc = "responded"
        /\ C23_CapturePost /\ C23_OriginAllowed /\ C23_TokenMatches
        /\ C23_JsonContentType
        /\ fnCall.request.chunks > fnCall.config.byteLimit) =>
         fnCall.status = 413 /\ fnCall.files = 0 /\ fnCall.dirs = 0

\* a capture with the right token was written and answered 200
C23_Witness ==
  /\ fnCall.fn = "server"
  /\ fnCall.pc = "responded"
  /\ fnCall.status = 200
  /\ fnCall.files = 1
  /\ fnCall.config.token = "secret-token"
  /\ fnCall.request.token = <<"secret-token">>

\* ---------------------------------------------------------------------------
\* Properties of resolveElementCaptureTarget, stated on the chain
\* ---------------------------------------------------------------------------

\* the element at position i or one of its ancestors carries the chrome marker
R_Chrome(chain, i) == \E j \in i..Len(chain) : chain[j].marked

R_Area(node) == node.width * node.height

\* a candidate: not chrome, at least 8 x 8 and under 55% of the viewport
R_Candidate(c, i) ==
  /\ ~R_Chrome(c.chain, i)
  /\ c.chain[i].width >= 8
  /\ c.chain[i].height >= 8
  /\ R_Area(c.chain[i]) * 100 < 55 * c.innerWidth * c.innerHeight

R_Inline(node) == Len(node.display) >= 6 /\ SubSeq(node.display, 1, 6) = TxtInline

R_LayoutContainer(node) ==
  /\ node.display \in {TxtFlex, TxtGrid, TxtInlineFlex}
  /\ node.children > 1
  /\ ~(node.hasBackground \/ node.hasBorder \/ node.hasShadow)

\* the candidate at position i satisfies one of the two selection rules
R_Selected(c, i) ==
  LET node == c.chain[i]
      viewportArea == c.innerWidth * c.innerHeight
  IN /\ R_Candidate(c, i)
     /\ \/ /\ node.hasBackground \/ node.hasBorder \/ node.hasShadow \/ node.hasRadius
           /\ R_Area(node) * 100 <= 18 * viewportArea
        \/ /\ ~R_Inline(node)
           /\ ~R_LayoutContainer(node)
           /\ i - 1 <= 2
           /\ R_Area(node) * 100 <= 8 * viewportArea

\* the result expected of a walk over the positions in `walked`
R_Expected(c, walked) ==
  LET selected == {i \in walked : R_Selected(c, i)}
      blocks == {i \in walked : R_Candidate(c, i) /\ ~R_Inline(c.chain[i])}
  IN IF selected # {}
       THEN c.out = CHOOSE i \in selected : \A j \in selected : i <= j
     ELSE IF blocks # {}
       THEN /\ c.out \in blocks
            /\ \A j \in blocks : R_Area(c.chain[c.out]) <= R_Area(c.chain[j])
     ELSE c.out = 1

\* C24 as stated: over all the candidates of the chain, the innermost one
\* that satisfies a selection rule is returned, else the smallest-area
\* non-inline candidate, else the raw target.
C24_InnermostSelected ==
  (fnCall.fn = "resolveElementCaptureTarget" /\ fnCall.done) =>
    R_Expected(fnCall, 1..Len(fnCall.chain))

\* C24 amended: the same over the candidates within maxDepth parent hops of
\* the raw target.
C24_InnermostSelectedWithinDepth ==
  (fnCall.fn = "resolveElementCaptureTarget" /\ fnCall.done) =>
    R_Expected(fnCall, {i \in 1..Len(fnCall.chain) : i - 1 <= MaxDepth})

\* a compact block three hops above the raw target was passed over for the
\* card above it
C24_Witness ==
  /\ fnCall.fn = "resolveElementCaptureTarget"
  /\ fnCall.done
  /\ Len(fnCall.chain) >= 5
  /\ fnCall.out = 5
  /\ R_Candidate(fnCall, 4)
  /\ ~R_Inline(fnCall.chain[4])
  /\ ~R_LayoutContainer(fnCall.chain[4])
  /\ R_Area(fnCall.chain[4]) * 100 <= 8 * fnCall.innerWidth * fnCall.innerHeight

\* C29: resolveElementCaptureTarget returns an element of the chain: the raw
\* target, or a proper ancestor of it below <body> within maxDepth parent
\* hops that is not chrome, at least 8 x 8 and under 55% of the viewport.
C29_RawOrQualifiedAncestor ==
  (fnCall.fn = "resolveElementCaptureTarget" /\ fnCall.done) =>
    /\ fnCall.out \in 1..Len(fnCall.chain)
    /\ \/ fnCall.out = 1
       \/ /\ fnCall.out - 1 <= 8
          /\ R_Candidate(fnCall, fnCall.out)

\* an ancestor eight hops above the raw target was returned from a chain that
\* goes on above it
C29_Witness ==
  /\ fnCall.fn = "resolveElementCaptureTarget"
  /\ fnCall.done
  /\ fnCall.out = 9
  /\ Len(fnCall.chain) > 9

\* ---------------------------------------------------------------------------
\* The widget of packages/widget/src/ScreenshotterWidget.tsx, whose
\* executeCapture is guarded by the isSaving state of the render that created
\* it.  `state` is the React state after the updates made so far, `rendered`
\* the state the committed render, and so its handlers, have seen.
\* ---------------------------------------------------------------------------

StateWidgetInputs ==
  [fn : {"ScreenshotterWidget"}, hasAdapter : BOOLEAN, mode : Modes,
   themeSelection : {"current", "both"},
   state : {[isSaving |-> FALSE, status |-> "idle"]},
   rendered : {[isSaving |-> FALSE, status |-> "idle"]},
   runs : {[s \in Slots |-> [pc |-> "idle", themes |-> 0, idx |-> 0]]},
   ignored : {FALSE}]

StateWidgetInit ==
  /\ WidgetIdle
  /\ crop = NoCrop
  /\ fnCall \in StateWidgetInputs

\* where a run continues with its iteration idx, or after the loop
StateIteration(c, s, idx) ==
  IF idx > c.runs[s].themes
    THEN [c EXCEPT !.state.status = "success",
                   !.runs[s].idx = idx,
                   !.runs[s].pc = IF c.hasAdapter THEN "restore" ELSE "idle",
                   !.state.isSaving = IF c.hasAdapter THEN @ ELSE FALSE]
    ELSE [c EXCEPT !.runs[s].idx = idx,
                   !.runs[s].pc = IF c.hasAdapter THEN "setTheme" ELSE "capture"]

\* the catch and the start of the finally block
StateCatch(c, s) ==
  [c EXCEPT !.state.status = "error",
            !.runs[s].pc = IF c.hasAdapter THEN "restore" ELSE "idle",
            !.state.isSaving = IF c.hasAdapter THEN @ ELSE FALSE]

\* executeCapture of the committed render is called: the action button's
\* onClick or the picker's click listener
StateExecuteCapture(s, selected) ==
  /\ fnCall.fn = "ScreenshotterWidget"
  /\ fnCall.runs[s].pc = "idle"
  /\ \A t \in Slots : t < s => fnCall.runs[t].pc # "idle"
  /\ fnCall' =
       IF fnCall.rendered.isSaving THEN [fnCall EXCEPT !.ignored = TRUE]
       ELSE IF fnCall.mode = "element" /\ ~selected
         THEN [fnCall EXCEPT !.state.status = "error"]
       ELSE IF fnCall.themeSelection = "both" /\ ~fnCall.hasAdapter
         THEN [fnCall EXCEPT !.state.status = "error"]
       ELSE StateIteration(
              [fnCall EXCEPT !.state = [isSaving |-> TRUE, status |-> "saving"],
                             !.runs[s].themes =
                               IF fnCall.themeSelection = "both" THEN 2 ELSE 1],
              s, 1)
  /\ UNCHANGED <<props, mounted, inFlight, isSaving, status, hideUi, mode,
                 themeSelection, adapterTheme, pending, req, dropped, crop>>

\* React renders and commits the state: the handlers are created anew
StateRender ==
  /\ fnCall.fn = "ScreenshotterWidget"
  /\ fnCall.rendered # fnCall.state
  /\ fnCall' = [fnCall EXCEPT !.rendered = fnCall.state]
  /\ UNCHANGED <<props, mounted, inFlight, isSaving, status, hideUi, mode,
                 themeSelection, adapterTheme, pending, req, dropped, crop>>

\* themeAdapter.setTheme(theme) settles, then waitForMs(120) and the settle
\* delay elapse
StateThemeSet(s, ok) ==
  /\ fnCall.fn = "ScreenshotterWidget"
  /\ fnCall.runs[s].pc = "setTheme"
  /\ fnCall' = IF ok THEN [fnCall EXCEPT !.runs[s].pc = "capture"]
               ELSE StateCatch(fnCall, s)
  /\ UNCHANGED <<props, mounted, inFlight, isSaving, status, hideUi, mode,
                 themeSelection, adapterTheme, pending, req, dropped, crop>>

\* runSingleCapture(theme, selectedElement) settles
StateCaptureSettled(s, ok) ==
  /\ fnCall.fn = "ScreenshotterWidget"
  /\ fnCall.runs[s].pc = "capture"
  /\ fnCall' = IF ok THEN StateIteration(fnCall, s, fnCall.runs[s].idx + 1)
               ELSE StateCatch(fnCall, s)
  /\ UNCHANGED <<props, mounted, inFlight, isSaving, status, hideUi, mode,
                 themeSelection, adapterTheme, pending, req, dropped, crop>>

\* the restoring setTheme(originalTheme) of the finally block settles
StateRestoreSettled(s) ==
  /\ fnCall.fn = "ScreenshotterWidget"
  /\ fnCall.runs[s].pc = "restore"
  /\ fnCall' = [fnCall EXCEPT !.runs[s].pc = "idle", !.state.isSaving = FALSE]
  /\ UNCHANGED <<props, mounted, inFlight, isSaving, status, hideUi, mode,
                 themeSelection, adapterTheme, pending, req, dropped, crop>>

StateWidgetNext ==
  \/ \E s \in Slots, selected \in BOOLEAN : StateExecuteCapture(s, selected)
  \/ StateRender
  \/ \E s \in Slots, ok \in BOOLEAN : StateThemeSet(s, ok)
  \/ \E s \in Slots, ok \in BOOLEAN : StateCaptureSettled(s, ok)
  \/ \E s \in Slots : StateRestoreSettled(s)

StateWidgetSpec == StateWidgetInit /\ [][StateWidgetNext]_vars

\* C25 as stated: in the widget guarded by the isSaving state at most one
\* request is ever in flight: a trigger while a request is in flight is
\* ignored, also through a handler created before the saving state was
\* rendered.
C25_StateGuardSingleFlight ==
  fnCall.fn = "ScreenshotterWidget" =>
    Cardinality({s \in Slots : fnCall.runs[s].pc # "idle"}) <= 1

\* the same for triggers that arrive after the saving state was rendered
C25_RenderedStep ==
  (/\ fnCall.fn = "ScreenshotterWidget"
   /\ fnCall.rendered.isSaving
   /\ \E s \in Slots : fnCall.runs[s].pc # "idle") =>
    \A s \in Slots : fnCall.runs[s].pc = "idle" => fnCall'.runs[s].pc = "idle"

C25_RenderedGuardIgnores == [][C25_RenderedStep]_vars

\* ---------------------------------------------------------------------------
\* The orchestrator after unmount, its guard, and the settings of a request
\* ---------------------------------------------------------------------------

\* after unmount no request starts a sink call or invokes a callback
C26_UnmountedStep ==
  ~mounted =>
    \A s \in Slots :
      /\ req'[s].sinkCalls = req[s].sinkCalls
      /\ req'[s].onSaved = req[s].onSaved
      /\ req'[s].onError = req[s].onError

\* C26 as stated: once the widget has been unmounted, an in-flight request
\* starts no new sink call and invokes neither onSaved nor onError, whichever
\* step was in progress at unmount.
C26_QuietAfterUnmount == [][C26_UnmountedStep]_vars

\* C27: while the widget is mounted the in-flight guard is set exactly as
\* long as a request is running, its final theme restoration included; it is
\* clear again after a request has finished by any path, so that a later
\* trigger is not dropped.
C27_GuardStep ==
  (mounted /\ ~(\E s \in Slots : Running(s))) => dropped' = dropped

C27_GuardSpansRequest ==
  /\ [](mounted => (inFlight <=> \E s \in Slots : Running(s)))
  /\ [][C27_GuardStep]_vars

\* a request with an adapter ended in a cancellation-classified error, its
\* theme restoration was called, and the guard is clear while mounted
C27_Witness ==
  /\ mounted
  /\ props.hasAdapter
  /\ ~inFlight
  /\ \E s \in Slots :
       /\ Finished(s)
       /\ req[s].outcome = "cancelled"
       /\ Len(req[s].setThemeCalls) >= 2

\* the settings of a request are those of the panel when it was accepted, and
\* stay the request's while it runs
C28_SettingsStep ==
  \A s \in Slots :
    /\ (~Running(s) /\ req'[s].pc # "idle") => req'[s].mode = mode
    /\ (Running(s) /\ req'[s].pc # "idle") =>
         req'[s].mode = req[s].mode /\ req'[s].sel = req[s].sel

C28_SettingsOfStart ==
  \A s \in Slots :
    /\ \A i \in 1..Len(req[s].sinkCalls) : req[s].sinkCalls[i].mode = req[s].mode
    /\ \A i \in 1..Len(req[s].rasters) :
         (req[s].rasters[i].stage \in {"elemViewport", "elemDirect", "elemFallback"})
           <=> (req[s].mode = "element" /\ req[s].sel)

\* on the orchestrator: changing the mode in the panel while a request is in
\* flight changes no rasterization and no payload of it
OrchestratorSettingsFrozen == [](C28_SettingsOfStart) /\ [][C28_SettingsStep]_vars

\* ---------------------------------------------------------------------------
\* The panel settings and the closures of a render.  `state` is the React
\* state, `rendered` what the committed render and its callbacks (scale and
\* safeElementPaddingPx memoized from it) have seen, `run.closure` the render
\* whose executeCapture was called.
\* ---------------------------------------------------------------------------

PanelSettings ==
  [mode : {"element", "viewport"}, format : {"png", "jpeg"}, quality : {50, 90},
   elementPadding : {0, 8}]

\* the values a render computes from the state
RenderOf(settings) ==
  [mode |-> settings.mode, format |-> settings.format, quality |-> settings.quality,
   scale |-> ClampQualityToScale(settings.quality),
   safeElementPaddingPx |-> settings.elementPadding]

NoRun == [pc |-> "idle", closure |-> RenderOf(CHOOSE p \in PanelSettings : TRUE),
          selectedElement |-> FALSE, themes |-> 0, idx |-> 0, crops |-> <<>>,
          payloads |-> <<>>]

PanelInit ==
  /\ WidgetIdle
  /\ crop = NoCrop
  /\ \E settings \in PanelSettings :
       fnCall = [fn |-> "panel", state |-> settings, rendered |-> RenderOf(settings),
                 run |-> NoRun]

SettingsReadLive(c) == c.rendered

\* the settings the running executeCapture and its runSingleCapture read
SettingsRead(c) == c.run.closure

\* setMode, setFormat, setQuality, setElementPadding from the panel
SetPanelSetting(settings) ==
  /\ fnCall.fn = "panel"
  /\ Cardinality({f \in DOMAIN settings : settings[f] # fnCall.state[f]}) = 1
  /\ fnCall' = [fnCall EXCEPT !.state = settings]
  /\ UNCHANGED <<props, mounted, inFlight, isSaving, status, hideUi, mode,
                 themeSelection, adapterTheme, pending, req, dropped, crop>>

\* React renders: the memoized values and the callbacks are created anew
PanelRender ==
  /\ fnCall.fn = "panel"
  /\ fnCall.rendered # RenderOf(fnCall.state)
  /\ fnCall' = [fnCall EXCEPT !.rendered = RenderOf(fnCall.state)]
  /\ UNCHANGED <<props, mounted, inFlight, isSaving, status, hideUi, mode,
                 themeSelection, adapterTheme, pending, req, dropped, crop>>

\* executeCapture(selectedElement) of the committed render is called and accepted
PanelExecuteCapture(selectedElement, themes) ==
  /\ fnCall.fn = "panel"
  /\ fnCall.run.pc = "idle"
  /\ fnCall.rendered.mode = "element" => selectedElement
  /\ fnCall' = [fnCall EXCEPT !.run = [pc |-> "render", closure |-> fnCall.rendered,
                                      selectedElement |-> selectedElement,
                                      themes |-> themes, idx |-> 1,
                                      crops |-> <<>>, payloads |-> <<>>]]
  /\ UNCHANGED <<props, mounted, inFlight, isSaving, status, hideUi, mode,
                 themeSelection, adapterTheme, pending, req, dropped, crop>>

\* runSingleCapture: the rendering settles; the crop, the encoding and the
\* payload handed to postCapture
PanelRendered ==
  /\ fnCall.fn = "panel"
  /\ fnCall.run.pc = "render"
  /\ LET read == SettingsRead(fnCall)
         element == read.mode = "element" /\ fnCall.run.selectedElement
         cropped == [element |-> element, scale |-> read.scale,
                     padding |-> IF element THEN read.safeElementPaddingPx ELSE 0]
         payload == [mode |-> read.mode, format |-> read.format,
                     quality |-> read.quality, scale |-> read.scale,
                     selector |-> element]
     IN fnCall' = [fnCall EXCEPT !.run.pc = "post",
                                 !.run.crops = Append(@, cropped),
                                 !.run.payloads = Append(@, payload)]
  /\ UNCHANGED <<props, mounted, inFlight, isSaving, status, hideUi, mode,
                 themeSelection, adapterTheme, pending, req, dropped, crop>>

\* the sink call settles: the next iteration, or the end of the request
PanelPosted(ok) ==
  /\ fnCall.fn = "panel"
  /\ fnCall.run.pc = "post"
  /\ fnCall' = IF ok /\ fnCall.run.idx < fnCall.run.themes
                 THEN [fnCall EXCEPT !.run.pc = "render", !.run.idx = @ + 1]
                 ELSE [fnCall EXCEPT !.run.pc = "idle"]
  /\ UNCHANGED <<props, mounted, inFlight, isSaving, status, hideUi, mode,
                 themeSelection, adapterTheme, pending, req, dropped, crop>>

PanelNext ==
  \/ \E settings \in PanelSettings : SetPanelSetting(settings)
  \/ PanelRender
  \/ \E selectedElement \in BOOLEAN, themes \in 1..2 :
       PanelExecuteCapture(selectedElement, themes)
  \/ PanelRendered
  \/ \E ok \in BOOLEAN : PanelPosted(ok)

PanelSpec == PanelInit /\ [][PanelNext]_vars

\* the settings a request started with: those of the render committed when
\* it was accepted, kept while it runs
C28_PanelStep ==
  fnCall.fn = "panel" =>
    /\ (fnCall.run.pc = "idle" /\ fnCall'.run.pc # "idle") =>
         /\ fnCall'.run.closure.mode = fnCall.rendered.mode
         /\ fnCall'.run.closure.format = fnCall.rendered.format
         /\ fnCall'.run.closure.quality = fnCall.rendered.quality
         /\ fnCall'.run.closure.scale = fnCall.rendered.scale
         /\ fnCall'.run.closure.safeElementPaddingPx = fnCall.rendered.safeElementPaddingPx
    /\ (fnCall.run.pc # "idle" /\ fnCall'.run.pc # "idle") =>
         /\ fnCall'.run.closure = fnCall.run.closure
         /\ fnCall'.run.selectedElement = fnCall.run.selectedElement

C28_PanelPayloads ==
  fnCall.fn = "panel" =>
    LET run == fnCall.run
        element == run.closure.mode = "element" /\ run.selectedElement
    IN /\ \A i \in 1..Len(run.payloads) :
            /\ run.payloads[i].mode = run.closure.mode
            /\ run.payloads[i].format = run.closure.format
            /\ run.payloads[i].quality = run.closure.quality
            /\ run.payloads[i].scale = run.closure.scale
            /\ run.payloads[i].selector = element
       /\ \A i \in 1..Len(run.crops) :
            /\ run.crops[i].scale = run.closure.scale
            /\ run.crops[i].element = element
            /\ element => run.crops[i].padding = run.closure.safeElementPaddingPx

\* C28: all iterations of a request use the mode, format, quality, scale,
\* padding and selected element in effect when the request started; changing
\* the settings in the panel while the request is in flight changes no
\* payload and no crop of it.
C28_SettingsAtStart == [](C28_PanelPayloads) /\ [][C28_PanelStep]_vars

\* the second payload of a request was built after the format, the quality
\* and the padding had been changed and rendered
C28_PanelWitness ==
  /\ fnCall.fn = "panel"
  /\ fnCall.run.pc = "post"
  /\ Len(fnCall.run.payloads) = 2
  /\ fnCall.run.closure.mode = "element"
  /\ fnCall.rendered.format # fnCall.run.closure.format
  /\ fnCall.rendered.scale # fnCall.run.closure.scale
  /\ fnCall.rendered.safeElementPaddingPx # fnCall.run.closure.safeElementPaddingPx

\* ---------------------------------------------------------------------------
\* The element crop against the scaled, padded bounding box
\* ---------------------------------------------------------------------------

\* floor((left - padding) * scale) and ceil((width + 2 * padding) * scale) of
\* the element crop under check, horizontally and vertically
C30_X0 == ((crop.rect.left - 2 * crop.padding) * crop.scale) \div 200
C30_Y0 == ((crop.rect.top - 2 * crop.padding) * crop.scale) \div 200
C30_W0 == -((-((crop.rect.width + 4 * crop.padding) * crop.scale)) \div 200)
C30_H0 == -((-((crop.rect.height + 4 * crop.padding) * crop.scale)) \div 200)

\* the padded box has pixels inside the canvas
C30_Overlaps ==
  /\ C30_W0 >= 1
  /\ C30_H0 >= 1
  /\ C30_X0 < crop.W
  /\ C30_Y0 < crop.H
  /\ C30_X0 + C30_W0 > 0
  /\ C30_Y0 + C30_H0 > 0

\* C30 as stated: the rectangle cropElementFromViewportCanvas crops never
\* extends past the scaled, padded bounding box of the element: sx >= x0 and
\* sx + sw <= x0 + w0 whenever the box overlaps the canvas, and likewise
\* vertically, also when the box starts left of or above the canvas origin.
C30_CropWithinPaddedBox ==
  (crop.fn = "element" /\ crop.done /\ C30_Overlaps) =>
    /\ crop.out.sx >= C30_X0
    /\ crop.out.sx + crop.out.sw <= C30_X0 + C30_W0
    /\ crop.out.sy >= C30_Y0
    /\ crop.out.sy + crop.out.sh <= C30_Y0 + C30_H0

\* the same for boxes that start inside the canvas
C30_CropWithinBoxInside ==
  (crop.fn = "element" /\ crop.done /\ C30_Overlaps /\ C30_X0 >= 0 /\ C30_Y0 >= 0) =>
    /\ crop.out.sx >= C30_X0
    /\ crop.out.sx + crop.out.sw <= C30_X0 + C30_W0
    /\ crop.out.sy >= C30_Y0
    /\ crop.out.sy + crop.out.sh <= C30_Y0 + C30_H0

====
